---------------------------- MODULE Spec2Model ----------------------------
(***************************************************************************)
(* Uniswap v4 indexer: the event handlers (Initialize, ModifyLiquidity,    *)
(* Swap, Donate) as transitions of the entity store, with the helpers they *)
(* call (fee growth, tick-crossing scan, token amounts, interval buckets). *)
(*                                                                         *)
(* Numbers: the source computes on arbitrary-precision bigint.  TLC's      *)
(* integers are 32 bit, so the two fixed-point scales are reduced (Q128 to *)
(* 2^16, the SDK's Q96 to 2^6) and the event values are drawn small enough *)
(* that no product leaves the 32-bit range.  Division and remainder keep   *)
(* bigint semantics (truncation toward zero, remainder with the sign of    *)
(* the dividend).                                                          *)
(* Ids: a single chain is modelled, so the chainId prefix of every id is   *)
(* dropped; composite string ids are tuples.                               *)
(***************************************************************************)
EXTENDS Integers, Sequences, FiniteSets, TLC

VARIABLES
    context,    \* the entity store: one map id -> record per entity type
    ev,         \* the event delivered last, with the handler's outcome
    feed,       \* "chain": the feed is the protocol's; "open": unvalidated
    feedValid,  \* no ModifyLiquidity so far removed more than was stored
    hist,       \* what the feed did so far: the positions modified since the
                \* pool's fee growth last moved, whether every pool was
                \* initialized once, and how many events the feed may hold
    scan        \* input and output of one pure computation (SpecScan, SpecFees),
                \* or the handlers in flight with what each has read (SpecAwait)

vars == <<context, ev, feed, feedValid, hist, scan>>

-----------------------------------------------------------------------------
(* Bounds *)

MaxEvents == 4

\* events delivered by the open feed
MaxOpenEvents == 3

\* events delivered after the seeded prefix (SpecSeeded)
MaxSeededEvents == 3

\* events delivered to the two pools of SpecPools
MaxPoolsEvents == 2

\* events delivered after the prefix of SpecSkewed
MaxSkewedEvents == 2

\* the scanner run both ways: ticks in -MaxRoundTripTick..MaxRoundTripTick
MaxRoundTripTick == 4

MaxScanTick == 3

MaxSpacing == 3

\* fee-growth values, ticks and liquidities given to the fee helpers (SpecFees)
MaxFeeGrowth == 3

MaxFeeTick == 2

MaxFeeLiquidity == 3

\* prices given to the interval buckets (SpecBuckets)
MaxBucketPrice == 3

-----------------------------------------------------------------------------
(* bigint arithmetic *)

\* bigint a / b: truncates toward zero
Div(a, b) ==
    IF (a >= 0) = (b > 0)
    THEN (IF a >= 0 THEN a ELSE -a) \div (IF b > 0 THEN b ELSE -b)
    ELSE -((IF a >= 0 THEN a ELSE -a) \div (IF b > 0 THEN b ELSE -b))

\* bigint a % b: the remainder has the sign of the dividend
Rem(a, b) == a - b * Div(a, b)

Q128 == 2^16

Q96 == 2^6

ADDRESS_ZERO == "0x0"

-----------------------------------------------------------------------------
(* The store interface: context.X.get(id) / context.X.set(record) *)

Has(ctx, type, id) == id \in DOMAIN ctx[type]

Put(table, id, record) ==
    [k \in DOMAIN table \cup {id} |-> IF k = id THEN record ELSE table[k]]

Set_deleteEmptyTick(ctx, type, id, record) ==
    IF type = "Tick" /\ record.liquidityGross = 0
    THEN [ctx EXCEPT ![type] = [k \in DOMAIN @ \ {id} |-> @[k]]]
    ELSE [ctx EXCEPT ![type] = Put(@, id, record)]

Set(ctx, type, id, record) == [ctx EXCEPT ![type] = Put(@, id, record)]

EntityTypes ==
    {"Pool", "Token", "Tick", "Position", "LiquidityProvider", "HookStats",
     "Transaction", "Swap", "ModifyLiquidity", "PoolDayData", "PoolHourData",
     "Pool5MinuteData", "TokenDayData", "TokenHourData"}

EmptyContext == [type \in EntityTypes |-> <<>>]

-----------------------------------------------------------------------------
(* swap.ts helpers *)

calculateFees(amount, feeTier) == Div(amount * feeTier, 1000000)

abs(value) == IF value < 0 THEN -value ELSE value

updateFeeGrowth_unguarded(currentFeeGrowth, fees, liquidity) ==
    currentFeeGrowth + Div(fees * Q128, IF liquidity = 0 THEN 1 ELSE liquidity)

updateFeeGrowth(currentFeeGrowth, fees, liquidity) ==
    IF liquidity = 0
    THEN currentFeeGrowth
    ELSE currentFeeGrowth + Div(fees * Q128, liquidity)

flipFeeGrowthOutside(feeGrowthGlobal, feeGrowthOutside) ==
    feeGrowthGlobal - feeGrowthOutside

\* mutant: the ascending start is rounded down instead of up
roundToSpacing_down(startTick, tickSpacing, ascending) ==
    LET remainder == Rem(startTick, tickSpacing)
    IN  IF remainder # 0 THEN startTick - remainder ELSE startTick

\* lines 60-68: "Round to nearest tick spacing boundary"
roundToSpacing(startTick, tickSpacing, ascending) ==
    LET remainder == Rem(startTick, tickSpacing)
    IN  IF remainder # 0
        THEN IF ascending
             THEN startTick + (tickSpacing - remainder)
             ELSE startTick - remainder
        ELSE startTick

\* for (tick = currentTick; tick <= endTick; tick += tickSpacing)
RECURSIVE ascendingTicks(_, _, _)
ascendingTicks(tick, endTick, tickSpacing) ==
    IF tick <= endTick
    THEN <<tick>> \o ascendingTicks(tick + tickSpacing, endTick, tickSpacing)
    ELSE <<>>

\* for (tick = currentTick; tick >= endTick; tick -= tickSpacing)
RECURSIVE descendingTicks(_, _, _)
descendingTicks(tick, endTick, tickSpacing) ==
    IF tick >= endTick
    THEN <<tick>> \o descendingTicks(tick - tickSpacing, endTick, tickSpacing)
    ELSE <<>>

\* lines 53-81: ticksToCheck, the candidate ticks the scanner looks up
candidateTicks(oldTick, newTick, tickSpacing) ==
    IF newTick = oldTick
    THEN <<>>
    ELSE IF newTick > oldTick
    THEN ascendingTicks(roundToSpacing(oldTick + 1, tickSpacing, TRUE),
                        newTick, tickSpacing)
    ELSE descendingTicks(roundToSpacing(oldTick, tickSpacing, FALSE),
                         newTick + 1, tickSpacing)

getInitializedTicksCrossed(ctx, poolId, oldTick, newTick, tickSpacing) ==
    IF newTick = oldTick
    THEN <<>>
    ELSE
      LET ascending == newTick > oldTick
          startTick == IF ascending THEN oldTick + 1 ELSE oldTick
          endTick == IF ascending THEN newTick ELSE newTick + 1
          currentTick == roundToSpacing(startTick, tickSpacing, ascending)
          ticksToCheck ==
              IF ascending
              THEN ascendingTicks(currentTick, endTick, tickSpacing)
              ELSE descendingTicks(currentTick, endTick, tickSpacing)
          exists(tickIdx) == Has(ctx, "Tick", <<poolId, tickIdx>>)
      IN  SelectSeq(ticksToCheck, exists)

-----------------------------------------------------------------------------
(* modifyLiquidity.ts: entity constructors *)

createTick(tickId, tickIdx, poolId, timestamp, blockNumber) ==
    [id |-> tickId, tickIdx |-> tickIdx, pool_id |-> poolId,
     liquidityGross |-> 0, liquidityNet |-> 0,
     feeGrowthOutside0X128 |-> 0, feeGrowthOutside1X128 |-> 0,
     positionCount |-> 0,
     createdAtTimestamp |-> timestamp, createdAtBlockNumber |-> blockNumber]

createPosition(positionId, owner, poolId, token0Id, token1Id, tickLower, tickUpper, transactionId, timestamp, blockNumber, liquidityProviderId) ==
    [id |-> positionId, owner |-> owner,
     liquidityProvider_id |-> liquidityProviderId, pool_id |-> poolId,
     token0_id |-> token0Id, token1_id |-> token1Id,
     tickLower |-> tickLower, tickUpper |-> tickUpper,
     liquidity |-> 0,
     deposited0 |-> 0, deposited1 |-> 0, withdrawn0 |-> 0, withdrawn1 |-> 0,
     fees0 |-> 0, fees1 |-> 0,
     feeGrowthInside0LastX128 |-> 0, feeGrowthInside1LastX128 |-> 0,
     modifyLiquidityCount |-> 0,
     transaction_id |-> transactionId,
     createdAtTimestamp |-> timestamp, createdAtBlockNumber |-> blockNumber]

\* returns the store after the lookup: a missing provider is stored at once
getOrCreateLiquidityProvider(ctx, poolId, event) ==
    LET lpId == <<poolId, event.sender>>
    IN  IF Has(ctx, "LiquidityProvider", lpId)
        THEN ctx
        ELSE Set(ctx, "LiquidityProvider", lpId,
                 [id |-> lpId, address |-> event.sender,
                  deposited0 |-> 0, deposited1 |-> 0,
                  withdrawn0 |-> 0, withdrawn1 |-> 0,
                  fees0 |-> 0, fees1 |-> 0,
                  positionCount |-> 0, modifyLiquidityCount |-> 0,
                  createdAtTimestamp |-> event.block.timestamp,
                  createdAtBlockNumber |-> event.block.number])

-----------------------------------------------------------------------------
(* utils/liquidityUtils *)

getFeeGrowthInside_openLower(feeGrowthGlobal, feeGrowthOutsideLower, feeGrowthOutsideUpper, tickLower, tickUpper, currentTick) ==
    LET feeGrowthBelow ==
            IF currentTick > tickLower
            THEN feeGrowthOutsideLower
            ELSE feeGrowthGlobal - feeGrowthOutsideLower
        feeGrowthAbove ==
            IF currentTick < tickUpper
            THEN feeGrowthOutsideUpper
            ELSE feeGrowthGlobal - feeGrowthOutsideUpper
    IN  feeGrowthGlobal - feeGrowthBelow - feeGrowthAbove

getFeeGrowthInside(feeGrowthGlobal, feeGrowthOutsideLower, feeGrowthOutsideUpper, tickLower, tickUpper, currentTick) ==
    LET feeGrowthBelow ==
            IF currentTick >= tickLower
            THEN feeGrowthOutsideLower
            ELSE feeGrowthGlobal - feeGrowthOutsideLower
        feeGrowthAbove ==
            IF currentTick < tickUpper
            THEN feeGrowthOutsideUpper
            ELSE feeGrowthGlobal - feeGrowthOutsideUpper
    IN  feeGrowthGlobal - feeGrowthBelow - feeGrowthAbove

calculateAccruedFees_plusOne(liquidity, feeGrowthInside, feeGrowthInsideLast) ==
    Div(liquidity * (feeGrowthInside - feeGrowthInsideLast), Q128) + 1

calculateAccruedFees_floor(liquidity, feeGrowthInside, feeGrowthInsideLast) ==
    (liquidity * (feeGrowthInside - feeGrowthInsideLast)) \div Q128

calculateAccruedFees(liquidity, feeGrowthInside, feeGrowthInsideLast) ==
    Div(liquidity * (feeGrowthInside - feeGrowthInsideLast), Q128)

\* TickMath.getSqrtRatioAtTick of the SDK: strictly increasing in the tick,
\* Q96 at tick 0 (the SDK's exponential is replaced by a linear ramp)
getSqrtRatioAtTick(tick) == Q96 + 4 * tick

\* SqrtPriceMath.getAmount0Delta(a, b, liquidity, roundUp = false)
getAmount0Delta(sqrtRatioAX96, sqrtRatioBX96, liquidity) ==
    LET a == IF sqrtRatioAX96 > sqrtRatioBX96 THEN sqrtRatioBX96 ELSE sqrtRatioAX96
        b == IF sqrtRatioAX96 > sqrtRatioBX96 THEN sqrtRatioAX96 ELSE sqrtRatioBX96
    IN  Div(Div((liquidity * Q96) * (b - a), b), a)

\* SqrtPriceMath.getAmount1Delta(a, b, liquidity, roundUp = false)
getAmount1Delta(sqrtRatioAX96, sqrtRatioBX96, liquidity) ==
    LET a == IF sqrtRatioAX96 > sqrtRatioBX96 THEN sqrtRatioBX96 ELSE sqrtRatioAX96
        b == IF sqrtRatioAX96 > sqrtRatioBX96 THEN sqrtRatioAX96 ELSE sqrtRatioBX96
    IN  Div(liquidity * (b - a), Q96)

calculateTokenAmounts_unsigned1(liquidityDelta, tickLower, tickUpper, sqrtPriceX96) ==
    LET isAddingLiquidity == liquidityDelta > 0
        liquidityAbs == IF liquidityDelta < 0 THEN -liquidityDelta ELSE liquidityDelta
        sqrtPriceLowerX96 == getSqrtRatioAtTick(tickLower)
        sqrtPriceUpperX96 == getSqrtRatioAtTick(tickUpper)
        amount0Calculated ==
            IF sqrtPriceX96 <= sqrtPriceLowerX96
            THEN getAmount0Delta(sqrtPriceLowerX96, sqrtPriceUpperX96, liquidityAbs)
            ELSE IF sqrtPriceX96 >= sqrtPriceUpperX96
            THEN 0
            ELSE getAmount0Delta(sqrtPriceX96, sqrtPriceUpperX96, liquidityAbs)
        amount1Calculated ==
            IF sqrtPriceX96 <= sqrtPriceLowerX96
            THEN 0
            ELSE IF sqrtPriceX96 >= sqrtPriceUpperX96
            THEN getAmount1Delta(sqrtPriceLowerX96, sqrtPriceUpperX96, liquidityAbs)
            ELSE getAmount1Delta(sqrtPriceLowerX96, sqrtPriceX96, liquidityAbs)
    IN  [amount0 |-> IF isAddingLiquidity THEN amount0Calculated ELSE -amount0Calculated,
         amount1 |-> amount1Calculated,
         amount0Abs |-> amount0Calculated,
         amount1Abs |-> amount1Calculated]

calculateTokenAmounts(liquidityDelta, tickLower, tickUpper, sqrtPriceX96) ==
    LET isAddingLiquidity == liquidityDelta > 0
        liquidityAbs == IF liquidityDelta < 0 THEN -liquidityDelta ELSE liquidityDelta
        sqrtPriceLowerX96 == getSqrtRatioAtTick(tickLower)
        sqrtPriceUpperX96 == getSqrtRatioAtTick(tickUpper)
        amount0Calculated ==
            IF sqrtPriceX96 <= sqrtPriceLowerX96
            THEN getAmount0Delta(sqrtPriceLowerX96, sqrtPriceUpperX96, liquidityAbs)
            ELSE IF sqrtPriceX96 >= sqrtPriceUpperX96
            THEN 0
            ELSE getAmount0Delta(sqrtPriceX96, sqrtPriceUpperX96, liquidityAbs)
        amount1Calculated ==
            IF sqrtPriceX96 <= sqrtPriceLowerX96
            THEN 0
            ELSE IF sqrtPriceX96 >= sqrtPriceUpperX96
            THEN getAmount1Delta(sqrtPriceLowerX96, sqrtPriceUpperX96, liquidityAbs)
            ELSE getAmount1Delta(sqrtPriceLowerX96, sqrtPriceX96, liquidityAbs)
    IN  [amount0 |-> IF isAddingLiquidity THEN amount0Calculated ELSE -amount0Calculated,
         amount1 |-> IF isAddingLiquidity THEN amount1Calculated ELSE -amount1Calculated,
         amount0Abs |-> amount0Calculated,
         amount1Abs |-> amount1Calculated]

-----------------------------------------------------------------------------
(* utils/transaction *)

getOrCreateTransaction(ctx, event) ==
    LET txId == event.hash
    IN  Set(ctx, "Transaction", txId,
            [id |-> txId, blockNumber |-> event.block.number,
             timestamp |-> event.block.timestamp, gasUsed |-> 0, gasPrice |-> 0])

-----------------------------------------------------------------------------
(* utils/intervalUpdates: each returns the store with the bucket upserted;  *)
(* the handler reads the bucket back, adds its deltas and sets it again.    *)

\* the part the three pool upserts share: the bucket created on first touch
newPoolInterval_zeroExtremes(bucketId, startTimestamp, pool) ==
    [id |-> bucketId, startTimestamp |-> startTimestamp, pool_id |-> pool.id,
     volume0 |-> 0, volume1 |-> 0, fees0 |-> 0, fees1 |-> 0,
     tvl0 |-> 0, tvl1 |-> 0,
     txCount |-> 0, swapCount |-> 0, modifyLiquidityCount |-> 0,
     open_ |-> pool.sqrtPriceX96, high |-> 0,
     low |-> 0, close |-> pool.sqrtPriceX96,
     liquidity |-> pool.liquidity,
     sqrtPriceX96 |-> pool.sqrtPriceX96, tick |-> pool.tick]

newPoolInterval_carryTotals(bucketId, startTimestamp, pool) ==
    [id |-> bucketId, startTimestamp |-> startTimestamp, pool_id |-> pool.id,
     volume0 |-> pool.volume0, volume1 |-> pool.volume1, fees0 |-> 0, fees1 |-> 0,
     tvl0 |-> 0, tvl1 |-> 0,
     txCount |-> 0, swapCount |-> pool.swapCount,
     modifyLiquidityCount |-> pool.modifyLiquidityCount,
     open_ |-> pool.sqrtPriceX96, high |-> pool.sqrtPriceX96,
     low |-> pool.sqrtPriceX96, close |-> pool.sqrtPriceX96,
     liquidity |-> pool.liquidity,
     sqrtPriceX96 |-> pool.sqrtPriceX96, tick |-> pool.tick]

newPoolInterval(bucketId, startTimestamp, pool) ==
    [id |-> bucketId, startTimestamp |-> startTimestamp, pool_id |-> pool.id,
     volume0 |-> 0, volume1 |-> 0, fees0 |-> 0, fees1 |-> 0,
     tvl0 |-> 0, tvl1 |-> 0,
     txCount |-> 0, swapCount |-> 0, modifyLiquidityCount |-> 0,
     open_ |-> pool.sqrtPriceX96, high |-> pool.sqrtPriceX96,
     low |-> pool.sqrtPriceX96, close |-> pool.sqrtPriceX96,
     liquidity |-> pool.liquidity,
     sqrtPriceX96 |-> pool.sqrtPriceX96, tick |-> pool.tick]

touchPoolInterval_overwrite(data, pool) ==
    [data EXCEPT
        !.high = pool.sqrtPriceX96,
        !.low = pool.sqrtPriceX96,
        !.liquidity = pool.liquidity,
        !.sqrtPriceX96 = pool.sqrtPriceX96,
        !.close = pool.sqrtPriceX96,
        !.tick = pool.tick,
        !.tvl0 = pool.tvl0,
        !.tvl1 = pool.tvl1,
        !.txCount = @ + 1]

\* the part the three pool upserts share: the touch
touchPoolInterval(data, pool) ==
    [data EXCEPT
        !.high = IF pool.sqrtPriceX96 > @ THEN pool.sqrtPriceX96 ELSE @,
        !.low = IF pool.sqrtPriceX96 < @ THEN pool.sqrtPriceX96 ELSE @,
        !.liquidity = pool.liquidity,
        !.sqrtPriceX96 = pool.sqrtPriceX96,
        !.close = pool.sqrtPriceX96,
        !.tick = pool.tick,
        !.tvl0 = pool.tvl0,
        !.tvl1 = pool.tvl1,
        !.txCount = @ + 1]

upsertPoolInterval_nearest(ctx, type, period, timestamp, pool) ==
    LET index == (timestamp + period \div 2) \div period
        bucketId == <<pool.id, index>>
    IN  Set(ctx, type, bucketId,
            touchPoolInterval(
                IF Has(ctx, type, bucketId)
                THEN ctx[type][bucketId]
                ELSE newPoolInterval(bucketId, index * period, pool),
                pool))

upsertPoolInterval(ctx, type, period, timestamp, pool) ==
    LET bucketId == <<pool.id, timestamp \div period>>
    IN  Set(ctx, type, bucketId,
            touchPoolInterval(
                IF Has(ctx, type, bucketId)
                THEN ctx[type][bucketId]
                ELSE newPoolInterval(bucketId, (timestamp \div period) * period, pool),
                pool))

updatePoolDayData(ctx, timestamp, pool) ==
    upsertPoolInterval(ctx, "PoolDayData", 86400, timestamp, pool)

updatePool5MinuteData(ctx, timestamp, pool) ==
    upsertPoolInterval(ctx, "Pool5MinuteData", 300, timestamp, pool)

updatePoolHourData(ctx, timestamp, pool) ==
    upsertPoolInterval(ctx, "PoolHourData", 3600, timestamp, pool)

upsertTokenInterval(ctx, type, period, timestamp, token) ==
    LET bucketId == <<token.id, timestamp \div period>>
        data == IF Has(ctx, type, bucketId)
                THEN ctx[type][bucketId]
                ELSE [id |-> bucketId,
                      startTimestamp |-> (timestamp \div period) * period,
                      token_id |-> token.id,
                      volume |-> 0, txCount |-> 0, swapCount |-> 0,
                      modifyLiquidityCount |-> 0]
    IN  Set(ctx, type, bucketId, [data EXCEPT !.txCount = @ + 1])

updateTokenDayData(ctx, timestamp, token) ==
    upsertTokenInterval(ctx, "TokenDayData", 86400, timestamp, token)

updateTokenHourData(ctx, timestamp, token) ==
    upsertTokenInterval(ctx, "TokenHourData", 3600, timestamp, token)

\* the seven upserts every ModifyLiquidity, Swap and Donate awaits together
updateIntervals(ctx, timestamp, pool, token0, token1) ==
    updateTokenHourData(
      updateTokenHourData(
        updateTokenDayData(
          updateTokenDayData(
            updatePool5MinuteData(
              updatePoolHourData(
                updatePoolDayData(ctx, timestamp, pool),
                timestamp, pool),
              timestamp, pool),
            timestamp, token0),
          timestamp, token1),
        timestamp, token0),
      timestamp, token1)

\* a handler's period-scoped deltas added to a bucket it got back
addToPoolInterval(ctx, type, period, timestamp, pool, d) ==
    LET bucketId == <<pool.id, timestamp \div period>>
    IN  Set(ctx, type, bucketId,
            [ctx[type][bucketId] EXCEPT
                !.volume0 = @ + d.volume0,
                !.volume1 = @ + d.volume1,
                !.fees0 = @ + d.fees0,
                !.fees1 = @ + d.fees1,
                !.swapCount = @ + d.swapCount,
                !.modifyLiquidityCount = @ + d.modifyLiquidityCount])

addToTokenInterval(ctx, type, period, timestamp, token, volume, d) ==
    LET bucketId == <<token.id, timestamp \div period>>
    IN  Set(ctx, type, bucketId,
            [ctx[type][bucketId] EXCEPT
                !.volume = @ + volume,
                !.swapCount = @ + d.swapCount,
                !.modifyLiquidityCount = @ + d.modifyLiquidityCount])

\* the interval part of ModifyLiquidity, Swap and Donate: the seven upserts,
\* the deltas d added to the buckets returned, the buckets set again
writeIntervals(ctx, timestamp, pool, token0, token1, d) ==
    addToTokenInterval(
      addToTokenInterval(
        addToTokenInterval(
          addToTokenInterval(
            addToPoolInterval(
              addToPoolInterval(
                addToPoolInterval(
                  updateIntervals(ctx, timestamp, pool, token0, token1),
                  "PoolDayData", 86400, timestamp, pool, d),
                "PoolHourData", 3600, timestamp, pool, d),
              "Pool5MinuteData", 300, timestamp, pool, d),
            "TokenDayData", 86400, timestamp, token0, d.volume0, d),
          "TokenDayData", 86400, timestamp, token1, d.volume1, d),
        "TokenHourData", 3600, timestamp, token0, d.volume0, d),
      "TokenHourData", 3600, timestamp, token1, d.volume1, d)

NoDelta ==
    [volume0 |-> 0, volume1 |-> 0, fees0 |-> 0, fees1 |-> 0,
     swapCount |-> 0, modifyLiquidityCount |-> 0]

-----------------------------------------------------------------------------
(* effects/getTokenMetadata *)

getNativeTokenMetadata == [name |-> "Ether", symbol |-> "ETH", decimals |-> 18]

getTokenMetadataEffect_allOrNothing(address, rpc) ==
    IF address = ADDRESS_ZERO
    THEN getNativeTokenMetadata
    ELSE IF rpc.name.ok /\ rpc.symbol.ok /\ rpc.decimals.ok
    THEN [name |-> rpc.name.value, symbol |-> rpc.symbol.value,
          decimals |-> rpc.decimals.value]
    ELSE [name |-> "unknown", symbol |-> "UNKNOWN", decimals |-> 0]

\* rpc: the outcome of the three contract reads, each [ok, value]
getTokenMetadataEffect(address, rpc) ==
    IF address = ADDRESS_ZERO
    THEN getNativeTokenMetadata
    ELSE [name |-> IF rpc.name.ok THEN rpc.name.value ELSE "unknown",
          symbol |-> IF rpc.symbol.ok THEN rpc.symbol.value ELSE "UNKNOWN",
          decimals |-> IF rpc.decimals.ok THEN rpc.decimals.value ELSE 0]

-----------------------------------------------------------------------------
(* handlers: Initialize *)

newToken(tokenId, metadata) ==
    [id |-> tokenId, symbol |-> metadata.symbol,
     name |-> metadata.name, decimals |-> metadata.decimals,
     volume |-> 0, txCount |-> 0, poolCount |-> 0,
     swapCount |-> 0, modifyLiquidityCount |-> 0,
     positionCount |-> 0, tvl |-> 0]

getOrCreateToken_refresh(ctx, tokenId, tokenAddress, rpc) ==
    IF Has(ctx, "Token", tokenId)
    THEN Set(ctx, "Token", tokenId,
             [ctx.Token[tokenId] EXCEPT
                 !.symbol = getTokenMetadataEffect(tokenAddress, rpc).symbol,
                 !.name = getTokenMetadataEffect(tokenAddress, rpc).name,
                 !.decimals = getTokenMetadataEffect(tokenAddress, rpc).decimals])
    ELSE Set(ctx, "Token", tokenId,
             newToken(tokenId, getTokenMetadataEffect(tokenAddress, rpc)))

\* returns the store; the token is read back from it by id
getOrCreateToken(ctx, tokenId, tokenAddress, rpc) ==
    IF Has(ctx, "Token", tokenId)
    THEN ctx
    ELSE Set(ctx, "Token", tokenId,
             newToken(tokenId, getTokenMetadataEffect(tokenAddress, rpc)))

\* lines 54-72: both tokens looked up or created, then their poolCount raised
initializeTokens(ctx, event) ==
    LET both == getOrCreateToken(
                    getOrCreateToken(ctx, event.currency0, event.currency0,
                                     event.rpc0),
                    event.currency1, event.currency1, event.rpc1)
        \* token0 is the copy returned by the first lookup
        token0 == IF Has(ctx, "Token", event.currency0)
                  THEN ctx.Token[event.currency0]
                  ELSE newToken(event.currency0,
                                getTokenMetadataEffect(event.currency0, event.rpc0))
        token1 == both.Token[event.currency1]
    IN  Set(Set(both, "Token", event.currency0,
                [token0 EXCEPT !.poolCount = @ + 1]),
            "Token", event.currency1, [token1 EXCEPT !.poolCount = @ + 1])

initializeHookStats_unguarded(ctx, event) ==
    Set(ctx, "HookStats", event.hooks,
        [(IF Has(ctx, "HookStats", event.hooks)
          THEN ctx.HookStats[event.hooks]
          ELSE [id |-> event.hooks, poolCount |-> 0, swapCount |-> 0,
                firstPoolCreatedAt |-> event.block.timestamp,
                volume0 |-> 0, volume1 |-> 0, fees0 |-> 0, fees1 |-> 0,
                tvl0 |-> 0, tvl1 |-> 0])
         EXCEPT !.poolCount = @ + 1])

\* lines 74-99
initializeHookStats(ctx, event) ==
    IF event.hooks # ADDRESS_ZERO
    THEN Set(ctx, "HookStats", event.hooks,
             [(IF Has(ctx, "HookStats", event.hooks)
               THEN ctx.HookStats[event.hooks]
               ELSE [id |-> event.hooks, poolCount |-> 0, swapCount |-> 0,
                     firstPoolCreatedAt |-> event.block.timestamp,
                     volume0 |-> 0, volume1 |-> 0, fees0 |-> 0, fees1 |-> 0,
                     tvl0 |-> 0, tvl1 |-> 0])
              EXCEPT !.poolCount = @ + 1])
    ELSE ctx

\* lines 101-133; symbol0, symbol1: the symbols of the tokens looked up
newPool(event, symbol0, symbol1) ==
    [id |-> event.id,
     name |-> <<symbol0, symbol1>>,
     createdAtTimestamp |-> event.block.timestamp,
     createdAtBlockNumber |-> event.block.number,
     token0_id |-> event.currency0, token1_id |-> event.currency1,
     feeTier |-> event.fee, tickSpacing |-> event.tickSpacing,
     hooks |-> event.hooks,
     liquidity |-> 0,
     sqrtPrice |-> event.sqrtPriceX96,
     sqrtPriceX96 |-> event.sqrtPriceX96,
     tick |-> event.tick,
     feeGrowthGlobal0X128 |-> 0, feeGrowthGlobal1X128 |-> 0,
     volume0 |-> 0, volume1 |-> 0, fees0 |-> 0, fees1 |-> 0,
     tvl0 |-> 0, tvl1 |-> 0,
     txCount |-> 0, swapCount |-> 0, modifyLiquidityCount |-> 0,
     positionCount |-> 0, activePositionCount |-> 0]

\* lines 134-139
initializePool(ctx, event, pool) ==
    updatePool5MinuteData(
      updatePoolHourData(
        updatePoolDayData(Set(ctx, "Pool", pool.id, pool),
                          event.block.timestamp, pool),
        event.block.timestamp, pool),
      event.block.timestamp, pool)

initializeWithTokens(ctx, event) ==
    initializePool(initializeHookStats(ctx, event), event,
                   newPool(event, ctx.Token[event.currency0].symbol,
                           ctx.Token[event.currency1].symbol))

InitializeHandler(ctx, event) ==
    initializeWithTokens(initializeTokens(ctx, event), event)

-----------------------------------------------------------------------------
(* handlers: Swap *)

updateTickCrossed(ctx, tickId, feeGrowthGlobal0X128, feeGrowthGlobal1X128) ==
    IF Has(ctx, "Tick", tickId)
    THEN Set(ctx, "Tick", tickId,
             [ctx.Tick[tickId] EXCEPT
                !.feeGrowthOutside0X128 =
                    flipFeeGrowthOutside(feeGrowthGlobal0X128, @),
                !.feeGrowthOutside1X128 =
                    flipFeeGrowthOutside(feeGrowthGlobal1X128, @)])
    ELSE ctx

\* Promise.all(ticksCrossed.map(updateTickCrossed)): the ticks are distinct
RECURSIVE updateTicksCrossed(_, _, _, _, _)
updateTicksCrossed(ctx, poolId, ticksCrossed, feeGrowthGlobal0X128, feeGrowthGlobal1X128) ==
    IF ticksCrossed = <<>>
    THEN ctx
    ELSE updateTicksCrossed(
             updateTickCrossed(ctx, <<poolId, Head(ticksCrossed)>>,
                               feeGrowthGlobal0X128, feeGrowthGlobal1X128),
             poolId, Tail(ticksCrossed),
             feeGrowthGlobal0X128, feeGrowthGlobal1X128)

\* lines 145-155: the amounts negated, their magnitudes, the fees per side
swapAmounts(event, feeTier) ==
    [amount0 |-> -event.amount0,
     amount1 |-> -event.amount1,
     amount0Abs |-> abs(-event.amount0),
     amount1Abs |-> abs(-event.amount1),
     fees0 |-> calculateFees(abs(-event.amount0), feeTier),
     fees1 |-> calculateFees(abs(-event.amount1), feeTier)]

\* mutant: the accumulators move backwards
swapFeeGrowth_down(poolRO, event, m) ==
    [poolRO EXCEPT
        !.feeGrowthGlobal0X128 = updateFeeGrowth(@, -m.fees0, poolRO.liquidity),
        !.feeGrowthGlobal1X128 = updateFeeGrowth(@, -m.fees1, poolRO.liquidity)]

swapFeeGrowth_eventLiquidity(poolRO, event, m) ==
    [poolRO EXCEPT
        !.feeGrowthGlobal0X128 = updateFeeGrowth(@, m.fees0, event.liquidity),
        !.feeGrowthGlobal1X128 = updateFeeGrowth(@, m.fees1, event.liquidity)]

\* lines 157-167: the accumulators advanced with the pre-swap liquidity
swapFeeGrowth(poolRO, event, m) ==
    [poolRO EXCEPT
        !.feeGrowthGlobal0X128 = updateFeeGrowth(@, m.fees0, poolRO.liquidity),
        !.feeGrowthGlobal1X128 = updateFeeGrowth(@, m.fees1, poolRO.liquidity)]

\* lines 169-195: the crossed ticks flipped with the advanced accumulators
swapCrossTicks(ctx, event, poolRO, pool) ==
    IF poolRO.tick # event.tick
    THEN updateTicksCrossed(
             ctx, event.id,
             getInitializedTicksCrossed(ctx, event.id, poolRO.tick, event.tick,
                                        pool.tickSpacing),
             pool.feeGrowthGlobal0X128, pool.feeGrowthGlobal1X128)
    ELSE ctx

swapPool_unsigned(pool, event, m) ==
    [pool EXCEPT
        !.volume0 = @ + m.amount0Abs,
        !.volume1 = @ + m.amount1Abs,
        !.fees0 = @ + m.fees0,
        !.fees1 = @ + m.fees1,
        !.txCount = @ + 1,
        !.swapCount = @ + 1,
        !.liquidity = event.liquidity,
        !.tick = event.tick,
        !.sqrtPrice = event.sqrtPriceX96,
        !.sqrtPriceX96 = event.sqrtPriceX96,
        !.tvl0 = @ + m.amount0Abs,
        !.tvl1 = @ + m.amount1Abs]

\* lines 197-211
swapPool(pool, event, m) ==
    [pool EXCEPT
        !.volume0 = @ + m.amount0Abs,
        !.volume1 = @ + m.amount1Abs,
        !.fees0 = @ + m.fees0,
        !.fees1 = @ + m.fees1,
        !.txCount = @ + 1,
        !.swapCount = @ + 1,
        !.liquidity = event.liquidity,
        !.tick = event.tick,
        !.sqrtPrice = event.sqrtPriceX96,
        !.sqrtPriceX96 = event.sqrtPriceX96,
        !.tvl0 = @ + m.amount0,
        !.tvl1 = @ + m.amount1]

\* lines 213-223
swapToken(token, amount, amountAbs) ==
    [token EXCEPT
        !.volume = @ + amountAbs, !.tvl = @ + amount,
        !.txCount = @ + 1, !.swapCount = @ + 1]

\* lines 225-240
swapHookStats(ctx, pool, m) ==
    IF pool.hooks # ADDRESS_ZERO /\ Has(ctx, "HookStats", pool.hooks)
    THEN Set(ctx, "HookStats", pool.hooks,
             [ctx.HookStats[pool.hooks] EXCEPT
                 !.swapCount = @ + 1,
                 !.volume0 = @ + m.amount0Abs,
                 !.volume1 = @ + m.amount1Abs,
                 !.fees0 = @ + m.fees0,
                 !.fees1 = @ + m.fees1,
                 !.tvl0 = @ + m.amount0,
                 !.tvl1 = @ + m.amount1])
    ELSE ctx

\* lines 244-260
swapRow(event, poolRO, m) ==
    [id |-> <<event.hash, event.logIndex>>,
     transaction_id |-> event.hash, timestamp |-> event.block.timestamp,
     pool_id |-> poolRO.id,
     token0_id |-> poolRO.token0_id, token1_id |-> poolRO.token1_id,
     sender |-> event.sender, recipient |-> event.sender,
     amount0 |-> m.amount0, amount1 |-> m.amount1,
     tick |-> event.tick, sqrtPriceX96 |-> event.sqrtPriceX96,
     logIndex |-> event.logIndex]

\* lines 241-320 on the store ctx left by the tick flips
swapWrite(ctx, event, poolRO, pool, token0, token1, m) ==
    Set(Set(Set(
        writeIntervals(
            Set(getOrCreateTransaction(swapHookStats(ctx, pool, m), event),
                "Swap", <<event.hash, event.logIndex>>, swapRow(event, poolRO, m)),
            event.block.timestamp, pool, token0, token1,
            [NoDelta EXCEPT !.volume0 = m.amount0Abs, !.volume1 = m.amount1Abs,
                            !.fees0 = m.fees0, !.fees1 = m.fees1,
                            !.swapCount = 1]),
        "Pool", pool.id, pool),
        "Token", token0.id, token0),
        "Token", token1.id, token1)

swapApply(ctx, event, poolRO, m, pool) ==
    swapWrite(swapCrossTicks(ctx, event, poolRO, pool), event, poolRO,
              swapPool(pool, event, m),
              swapToken(ctx.Token[poolRO.token0_id], m.amount0, m.amount0Abs),
              swapToken(ctx.Token[poolRO.token1_id], m.amount1, m.amount1Abs),
              m)

swapCompute(ctx, event, poolRO, m) ==
    swapApply(ctx, event, poolRO, m, swapFeeGrowth(poolRO, event, m))

SwapHandler(ctx, event) ==
    IF ~Has(ctx, "Pool", event.id)
    THEN ctx
    ELSE IF ~(/\ Has(ctx, "Token", ctx.Pool[event.id].token0_id)
              /\ Has(ctx, "Token", ctx.Pool[event.id].token1_id))
    THEN ctx
    ELSE swapCompute(ctx, event, ctx.Pool[event.id],
                     swapAmounts(event, ctx.Pool[event.id].feeTier))

-----------------------------------------------------------------------------
(* handlers: Donate *)

\* lines 79-82
donateTvl(poolRO, event) ==
    [poolRO EXCEPT
        !.tvl0 = @ + event.amount0, !.tvl1 = @ + event.amount1,
        !.txCount = @ + 1]

donateFeeGrowth_unguarded(pool, event) ==
    [pool EXCEPT
        !.feeGrowthGlobal0X128 =
            @ + Div(event.amount0 * Q128,
                    IF pool.liquidity = 0 THEN 1 ELSE pool.liquidity),
        !.feeGrowthGlobal1X128 =
            @ + Div(event.amount1 * Q128,
                    IF pool.liquidity = 0 THEN 1 ELSE pool.liquidity),
        !.fees0 = @ + event.amount0,
        !.fees1 = @ + event.amount1]

donateFeeGrowth_roundUp(pool, event) ==
    IF pool.liquidity > 0
    THEN [pool EXCEPT
            !.feeGrowthGlobal0X128 =
                @ + Div(event.amount0 * Q128 + pool.liquidity - 1, pool.liquidity),
            !.feeGrowthGlobal1X128 =
                @ + Div(event.amount1 * Q128 + pool.liquidity - 1, pool.liquidity),
            !.fees0 = @ + event.amount0,
            !.fees1 = @ + event.amount1]
    ELSE pool

\* lines 84-94: the donation credited as fees while liquidity is active
donateFeeGrowth(pool, event) ==
    IF pool.liquidity > 0
    THEN [pool EXCEPT
            !.feeGrowthGlobal0X128 = @ + Div(event.amount0 * Q128, pool.liquidity),
            !.feeGrowthGlobal1X128 = @ + Div(event.amount1 * Q128, pool.liquidity),
            !.fees0 = @ + event.amount0,
            !.fees1 = @ + event.amount1]
    ELSE pool

\* lines 96-101
donateToken(token, amount) ==
    [token EXCEPT !.tvl = @ + amount, !.txCount = @ + 1]

\* lines 103-115
donateHookStats(ctx, pool, event) ==
    IF pool.hooks # ADDRESS_ZERO /\ Has(ctx, "HookStats", pool.hooks)
    THEN Set(ctx, "HookStats", pool.hooks,
             [ctx.HookStats[pool.hooks] EXCEPT
                 !.fees0 = @ + event.amount0, !.fees1 = @ + event.amount1,
                 !.tvl0 = @ + event.amount0, !.tvl1 = @ + event.amount1])
    ELSE ctx

\* lines 117-158
donateWrite(ctx, event, pool, token0, token1) ==
    Set(Set(Set(
        writeIntervals(
            getOrCreateTransaction(donateHookStats(ctx, pool, event), event),
            event.block.timestamp, pool, token0, token1,
            [NoDelta EXCEPT !.fees0 = event.amount0, !.fees1 = event.amount1]),
        "Pool", pool.id, pool),
        "Token", token0.id, token0),
        "Token", token1.id, token1)

donateCompute(ctx, event, poolRO) ==
    donateWrite(ctx, event,
                donateFeeGrowth(donateTvl(poolRO, event), event),
                donateToken(ctx.Token[poolRO.token0_id], event.amount0),
                donateToken(ctx.Token[poolRO.token1_id], event.amount1))

DonateHandler(ctx, event) ==
    IF ~Has(ctx, "Pool", event.id)
    THEN ctx
    ELSE IF ~(/\ Has(ctx, "Token", ctx.Pool[event.id].token0_id)
              /\ Has(ctx, "Token", ctx.Pool[event.id].token1_id))
    THEN ctx
    ELSE donateCompute(ctx, event, ctx.Pool[event.id])

-----------------------------------------------------------------------------
(* handlers: ModifyLiquidity *)

\* mutant: the upper boundary is taken as part of the range
rangeContainsTick_closed(tickLower, tickUpper, tick) ==
    tickLower <= tick /\ tickUpper >= tick

\* lines 111-114: the position's range includes the pool's current tick
rangeContainsTick(tickLower, tickUpper, tick) ==
    tickLower <= tick /\ tickUpper > tick

\* mutant: the upper boundary's liquidityGross is not updated
applyLiquidityToTicks_lowerOnly(lowerTick, upperTick, liquidityDelta) ==
    [lower |-> [lowerTick EXCEPT
                   !.liquidityGross = @ + liquidityDelta,
                   !.liquidityNet = @ + liquidityDelta],
     upper |-> [upperTick EXCEPT !.liquidityNet = @ - liquidityDelta]]

\* lines 168-171
applyLiquidityToTicks(lowerTick, upperTick, liquidityDelta) ==
    [lower |-> [lowerTick EXCEPT
                   !.liquidityGross = @ + liquidityDelta,
                   !.liquidityNet = @ + liquidityDelta],
     upper |-> [upperTick EXCEPT
                   !.liquidityGross = @ + liquidityDelta,
                   !.liquidityNet = @ - liquidityDelta]]

\* mutant: the delta is taken off the position
positionLiquidity_sub(liquidity, liquidityDelta) == liquidity - liquidityDelta

\* line 241
positionLiquidity(liquidity, liquidityDelta) == liquidity + liquidityDelta

\* mutant: the pool's tvl moves by the absolute amounts
poolTvl_abs(pool, amounts) ==
    [pool EXCEPT !.tvl0 = @ + amounts.amount0Abs, !.tvl1 = @ + amounts.amount1Abs]

\* lines 105-107
poolTvl(pool, amounts) ==
    [pool EXCEPT !.tvl0 = @ + amounts.amount0, !.tvl1 = @ + amounts.amount1]

\* lines 54-92, 144-166, 202-217: what the handler reads, with the tick and
\* position it would create where none is stored; c0 is the store after the
\* provider lookup
modifyLiquidityReads(ctx, c0, event) ==
    [poolRO |-> ctx.Pool[event.id],
     token0RO |-> ctx.Token[ctx.Pool[event.id].token0_id],
     token1RO |-> ctx.Token[ctx.Pool[event.id].token1_id],
     hasPosition |->
        Has(ctx, "Position",
            <<event.id, event.sender, event.tickLower, event.tickUpper>>),
     lowerTick |->
        IF Has(ctx, "Tick", <<event.id, event.tickLower>>)
        THEN ctx.Tick[<<event.id, event.tickLower>>]
        ELSE createTick(<<event.id, event.tickLower>>, event.tickLower,
                        event.id, event.block.timestamp, event.block.number),
     upperTick |->
        IF Has(ctx, "Tick", <<event.id, event.tickUpper>>)
        THEN ctx.Tick[<<event.id, event.tickUpper>>]
        ELSE createTick(<<event.id, event.tickUpper>>, event.tickUpper,
                        event.id, event.block.timestamp, event.block.number),
     position |->
        IF Has(ctx, "Position",
               <<event.id, event.sender, event.tickLower, event.tickUpper>>)
        THEN ctx.Position[<<event.id, event.sender, event.tickLower,
                            event.tickUpper>>]
        ELSE createPosition(
                 <<event.id, event.sender, event.tickLower, event.tickUpper>>,
                 event.sender, event.id,
                 ctx.Pool[event.id].token0_id, ctx.Pool[event.id].token1_id,
                 event.tickLower, event.tickUpper, event.hash,
                 event.block.timestamp, event.block.number,
                 <<event.id, event.sender>>),
     liquidityProviderRO |-> c0.LiquidityProvider[<<event.id, event.sender>>],
     isAddingLiquidity |-> event.liquidityDelta > 0,
     amounts |-> calculateTokenAmounts(event.liquidityDelta, event.tickLower,
                                       event.tickUpper,
                                       ctx.Pool[event.id].sqrtPriceX96)]

modifyToken_countVolume(tokenRO, hasPosition) ==
    [tokenRO EXCEPT
        !.txCount = @ + 1,
        !.modifyLiquidityCount = @ + 1,
        !.volume = @ + 1,
        !.positionCount = IF ~hasPosition THEN @ + 1 ELSE @]

\* lines 94-99, 272-273
modifyToken(tokenRO, hasPosition) ==
    [tokenRO EXCEPT
        !.txCount = @ + 1,
        !.modifyLiquidityCount = @ + 1,
        !.positionCount = IF ~hasPosition THEN @ + 1 ELSE @]

\* lines 101-116: counters, tvl, and the liquidity of a range in range
modifyPoolLiquidity(r, event) ==
    [poolTvl(r.poolRO, r.amounts) EXCEPT
        !.txCount = @ + 1,
        !.modifyLiquidityCount = @ + 1,
        !.liquidity =
            IF rangeContainsTick(event.tickLower, event.tickUpper, r.poolRO.tick)
            THEN @ + event.liquidityDelta
            ELSE @]

\* lines 269-288 on the pool of lines 101-116
modifyPool_countDeposits(r, event, position) ==
    [modifyPoolLiquidity(r, event) EXCEPT
        !.positionCount = IF ~r.hasPosition THEN @ + 1 ELSE @,
        !.activePositionCount =
            IF event.liquidityDelta > 0 THEN @ + 1
            ELSE IF position.liquidity = 0 THEN @ - 1
            ELSE @]

modifyPool(r, event, position) ==
    [modifyPoolLiquidity(r, event) EXCEPT
        !.positionCount = IF ~r.hasPosition THEN @ + 1 ELSE @,
        !.activePositionCount =
            IF position.liquidity > 0
               /\ (~r.hasPosition \/ r.position.liquidity = 0)
            THEN @ + 1
            ELSE IF position.liquidity = 0 /\ r.hasPosition
                    /\ r.position.liquidity > 0
            THEN @ - 1
            ELSE @]

\* lines 120-136
modifyLiquidityRow(r, event) ==
    [id |-> <<event.hash, event.logIndex>>,
     transaction_id |-> event.hash, timestamp |-> event.block.timestamp,
     pool_id |-> r.poolRO.id,
     token0_id |-> r.poolRO.token0_id, token1_id |-> r.poolRO.token1_id,
     sender |-> event.sender, amount |-> event.liquidityDelta,
     amount0 |-> r.amounts.amount0, amount1 |-> r.amounts.amount1,
     tickLower |-> event.tickLower, tickUpper |-> event.tickUpper,
     logIndex |-> event.logIndex]

\* lines 168-177 on the ticks read or created
modifyTicks(r, event) ==
    IF ~r.hasPosition /\ r.isAddingLiquidity
    THEN applyLiquidityToTicks(
             [r.lowerTick EXCEPT !.positionCount = @ + 1],
             [r.upperTick EXCEPT !.positionCount = @ + 1],
             event.liquidityDelta)
    ELSE applyLiquidityToTicks(r.lowerTick, r.upperTick, event.liquidityDelta)

\* lines 183-199; the handler leaves the pool's tick and accumulators alone
modifyFeeGrowthInside(r, event, ticks) ==
    [feeGrowthInside0X128 |->
        getFeeGrowthInside(r.poolRO.feeGrowthGlobal0X128,
                           ticks.lower.feeGrowthOutside0X128,
                           ticks.upper.feeGrowthOutside0X128,
                           event.tickLower, event.tickUpper, r.poolRO.tick),
     feeGrowthInside1X128 |->
        getFeeGrowthInside(r.poolRO.feeGrowthGlobal1X128,
                           ticks.lower.feeGrowthOutside1X128,
                           ticks.upper.feeGrowthOutside1X128,
                           event.tickLower, event.tickUpper, r.poolRO.tick)]

\* lines 220-230
modifyAccruedFees(r, inside) ==
    IF r.hasPosition /\ r.position.liquidity > 0
    THEN [accruedFees0 |->
              calculateAccruedFees(r.position.liquidity,
                                   inside.feeGrowthInside0X128,
                                   r.position.feeGrowthInside0LastX128),
          accruedFees1 |->
              calculateAccruedFees(r.position.liquidity,
                                   inside.feeGrowthInside1X128,
                                   r.position.feeGrowthInside1LastX128)]
    ELSE [accruedFees0 |-> 0, accruedFees1 |-> 0]

modifyPosition_staleSnapshot(r, event, inside, accrued) ==
    [r.position EXCEPT
        !.fees0 = @ + accrued.accruedFees0,
        !.fees1 = @ + accrued.accruedFees1,
        !.liquidity = positionLiquidity(@, event.liquidityDelta),
        !.modifyLiquidityCount = @ + 1,
        !.deposited0 = IF r.isAddingLiquidity THEN @ + r.amounts.amount0Abs ELSE @,
        !.deposited1 = IF r.isAddingLiquidity THEN @ + r.amounts.amount1Abs ELSE @,
        !.withdrawn0 = IF r.isAddingLiquidity THEN @ ELSE @ + r.amounts.amount0Abs,
        !.withdrawn1 = IF r.isAddingLiquidity THEN @ ELSE @ + r.amounts.amount1Abs]

\* lines 233-253
modifyPosition(r, event, inside, accrued) ==
    [r.position EXCEPT
        !.fees0 = @ + accrued.accruedFees0,
        !.fees1 = @ + accrued.accruedFees1,
        !.liquidity = positionLiquidity(@, event.liquidityDelta),
        !.feeGrowthInside0LastX128 = inside.feeGrowthInside0X128,
        !.feeGrowthInside1LastX128 = inside.feeGrowthInside1X128,
        !.modifyLiquidityCount = @ + 1,
        !.deposited0 = IF r.isAddingLiquidity THEN @ + r.amounts.amount0Abs ELSE @,
        !.deposited1 = IF r.isAddingLiquidity THEN @ + r.amounts.amount1Abs ELSE @,
        !.withdrawn0 = IF r.isAddingLiquidity THEN @ ELSE @ + r.amounts.amount0Abs,
        !.withdrawn1 = IF r.isAddingLiquidity THEN @ ELSE @ + r.amounts.amount1Abs]

modifyLiquidityProvider_countDeposits(r, accrued) ==
    [r.liquidityProviderRO EXCEPT
        !.fees0 = @ + accrued.accruedFees0,
        !.fees1 = @ + accrued.accruedFees1,
        !.deposited0 = IF r.isAddingLiquidity THEN @ + r.amounts.amount0Abs ELSE @,
        !.deposited1 = IF r.isAddingLiquidity THEN @ + r.amounts.amount1Abs ELSE @,
        !.withdrawn0 = IF r.isAddingLiquidity THEN @ ELSE @ + r.amounts.amount0Abs,
        !.withdrawn1 = IF r.isAddingLiquidity THEN @ ELSE @ + r.amounts.amount1Abs,
        !.modifyLiquidityCount = @ + 1,
        !.positionCount = IF ~r.hasPosition /\ r.isAddingLiquidity THEN @ + 1 ELSE @]

modifyLiquidityProvider_signedWithdrawal(r, accrued) ==
    [r.liquidityProviderRO EXCEPT
        !.fees0 = @ + accrued.accruedFees0,
        !.fees1 = @ + accrued.accruedFees1,
        !.deposited0 = IF r.isAddingLiquidity THEN @ + r.amounts.amount0Abs ELSE @,
        !.deposited1 = IF r.isAddingLiquidity THEN @ + r.amounts.amount1Abs ELSE @,
        !.withdrawn0 = IF r.isAddingLiquidity THEN @ ELSE @ + r.amounts.amount0,
        !.withdrawn1 = IF r.isAddingLiquidity THEN @ ELSE @ + r.amounts.amount1,
        !.modifyLiquidityCount = @ + 1,
        !.positionCount = IF ~r.hasPosition THEN @ + 1 ELSE @]

\* lines 237-238, 256-270
modifyLiquidityProvider(r, accrued) ==
    [r.liquidityProviderRO EXCEPT
        !.fees0 = @ + accrued.accruedFees0,
        !.fees1 = @ + accrued.accruedFees1,
        !.deposited0 = IF r.isAddingLiquidity THEN @ + r.amounts.amount0Abs ELSE @,
        !.deposited1 = IF r.isAddingLiquidity THEN @ + r.amounts.amount1Abs ELSE @,
        !.withdrawn0 = IF r.isAddingLiquidity THEN @ ELSE @ + r.amounts.amount0Abs,
        !.withdrawn1 = IF r.isAddingLiquidity THEN @ ELSE @ + r.amounts.amount1Abs,
        !.modifyLiquidityCount = @ + 1,
        !.positionCount = IF ~r.hasPosition THEN @ + 1 ELSE @]

\* lines 118, 179-180, 290-335: the writes, in the handler's order
modifyLiquidityWrite(c0, event, r, ticks, position, liquidityProvider, pool, token0, token1) ==
    Set(Set(Set(Set(
        writeIntervals(
            Set(Set(Set(Set(getOrCreateTransaction(c0, event),
                "Tick", ticks.lower.id, ticks.lower),
                "Tick", ticks.upper.id, ticks.upper),
                "Position", position.id, position),
                "LiquidityProvider", liquidityProvider.id, liquidityProvider),
            event.block.timestamp, pool, token0, token1,
            [NoDelta EXCEPT !.modifyLiquidityCount = 1]),
        "Token", token0.id, token0),
        "Token", token1.id, token1),
        "Pool", pool.id, pool),
        "ModifyLiquidity", <<event.hash, event.logIndex>>,
        modifyLiquidityRow(r, event))

modifyLiquidityStore(c0, event, r, ticks, position, accrued) ==
    modifyLiquidityWrite(c0, event, r, ticks, position,
                         modifyLiquidityProvider(r, accrued),
                         modifyPool(r, event, position),
                         modifyToken(r.token0RO, r.hasPosition),
                         modifyToken(r.token1RO, r.hasPosition))

modifyLiquidityAccrue(c0, event, r, ticks, inside, accrued) ==
    modifyLiquidityStore(c0, event, r, ticks,
                         modifyPosition(r, event, inside, accrued), accrued)

modifyLiquidityInside(c0, event, r, ticks, inside) ==
    modifyLiquidityAccrue(c0, event, r, ticks, inside,
                          modifyAccruedFees(r, inside))

modifyLiquidityTicks(c0, event, r, ticks) ==
    modifyLiquidityInside(c0, event, r, ticks,
                          modifyFeeGrowthInside(r, event, ticks))

modifyLiquidityCompute(c0, event, r) ==
    modifyLiquidityTicks(c0, event, r, modifyTicks(r, event))

\* c0: the store after Promise.all, whose last member stores a provider that
\* was missing before the token check is reached
ModifyLiquidityHandler(ctx, event) ==
    IF ~Has(ctx, "Pool", event.id)
    THEN ctx
    ELSE IF ~(/\ Has(ctx, "Token", ctx.Pool[event.id].token0_id)
              /\ Has(ctx, "Token", ctx.Pool[event.id].token1_id))
    THEN getOrCreateLiquidityProvider(ctx, event.id, event)
    ELSE modifyLiquidityCompute(
             getOrCreateLiquidityProvider(ctx, event.id, event), event,
             modifyLiquidityReads(
                 ctx, getOrCreateLiquidityProvider(ctx, event.id, event), event))

-----------------------------------------------------------------------------
(* The event feed.  Block, transaction hash and log index come with every  *)
(* event; blocks arrive in order and the log index grows with each event.  *)

PoolIds == {"p1"}

Blocks ==
    {[number |-> 1, timestamp |-> 86000],
     [number |-> 2, timestamp |-> 86399],
     [number |-> 3, timestamp |-> 86400]}

\* the contract reads of the metadata resolver: all succeed, or name fails
RpcOk == [name |-> [ok |-> TRUE, value |-> "Token"],
          symbol |-> [ok |-> TRUE, value |-> "TKN"],
          decimals |-> [ok |-> TRUE, value |-> 6]]

RpcFail == [name |-> [ok |-> FALSE, value |-> ""],
            symbol |-> [ok |-> TRUE, value |-> "TKN"],
            decimals |-> [ok |-> FALSE, value |-> 0]]

\* Initialize{currency0, currency1, fee, tickSpacing, hooks, sqrtPriceX96, tick}
InitializeParams ==
    {[currency0 |-> ADDRESS_ZERO, currency1 |-> "tB", fee |-> 3000,
      tickSpacing |-> 2, hooks |-> ADDRESS_ZERO,
      sqrtPriceX96 |-> getSqrtRatioAtTick(0), tick |-> 0,
      rpc0 |-> RpcOk, rpc1 |-> RpcOk],
     [currency0 |-> "tA", currency1 |-> "tB", fee |-> 3000,
      tickSpacing |-> 2, hooks |-> "h1",
      sqrtPriceX96 |-> getSqrtRatioAtTick(-3) + 1, tick |-> -3,
      rpc0 |-> RpcOk, rpc1 |-> RpcFail]}

\* ModifyLiquidity{sender, tickLower, tickUpper}: aligned to the spacing
PositionKeys ==
    {[sender |-> "a", tickLower |-> -2, tickUpper |-> 2],
     [sender |-> "a", tickLower |-> 2, tickUpper |-> 4],
     [sender |-> "b", tickLower |-> -2, tickUpper |-> 2]}

LiquidityDeltas == {200, -100, -200}

\* Swap{amount0, amount1, sqrtPriceX96, tick}: the price lies in the tick
SwapParams ==
    {[tick |-> -4, sqrtPriceX96 |-> getSqrtRatioAtTick(-4), amount0 |-> -10000, amount1 |-> 5000],
     [tick |-> -3, sqrtPriceX96 |-> getSqrtRatioAtTick(-3) + 1, amount0 |-> 0, amount1 |-> 0],
     [tick |-> 0, sqrtPriceX96 |-> getSqrtRatioAtTick(0) + 2, amount0 |-> 10000, amount1 |-> -5000],
     [tick |-> 0, sqrtPriceX96 |-> getSqrtRatioAtTick(0), amount0 |-> 0, amount1 |-> 0],
     [tick |-> 2, sqrtPriceX96 |-> getSqrtRatioAtTick(2), amount0 |-> 10000, amount1 |-> -5000],
     [tick |-> 4, sqrtPriceX96 |-> getSqrtRatioAtTick(4), amount0 |-> 10000, amount1 |-> -5000]}

DonateParams ==
    {[amount0 |-> 100, amount1 |-> 0], [amount0 |-> 40, amount1 |-> 60]}

RECURSIVE SumOver(_, _)
SumOver(f, keys) ==
    IF keys = {}
    THEN 0
    ELSE LET k == CHOOSE x \in keys : TRUE
         IN  f[k] + SumOver(f, keys \ {k})

\* the liquidity of the stored positions of a pool whose range holds a tick
LiquidityInRange(ctx, poolId, tick) ==
    LET keys == {k \in DOMAIN ctx.Position :
                    /\ ctx.Position[k].pool_id = poolId
                    /\ ctx.Position[k].tickLower <= tick
                    /\ tick < ctx.Position[k].tickUpper}
    IN  SumOver([k \in keys |-> ctx.Position[k].liquidity], keys)

StoredLiquidity(ctx, positionId) ==
    IF Has(ctx, "Position", positionId) THEN ctx.Position[positionId].liquidity ELSE 0

\* the early returns of ModifyLiquidity, Swap and Donate
Dropped(ctx, poolId) ==
    IF ~Has(ctx, "Pool", poolId)
    THEN TRUE
    ELSE ~(/\ Has(ctx, "Token", ctx.Pool[poolId].token0_id)
           /\ Has(ctx, "Token", ctx.Pool[poolId].token1_id))

Envelope(kind, poolId, block) ==
    [kind |-> kind, id |-> poolId, block |-> block,
     hash |-> <<"tx", block.number>>, logIndex |-> ev.logIndex + 1]

Deliverable(block) ==
    /\ ev.logIndex < hist.budget
    /\ block.number >= ev.block.number

NoEvent == [kind |-> "none", logIndex |-> 0, block |-> [number |-> 0, timestamp |-> 0]]

NoScan == [phase |-> "off"]

NoHistory(budget) == [settled |-> {}, once |-> TRUE, budget |-> budget]

-----------------------------------------------------------------------------
(* One action per handler.  Under the chain's feed a pool is initialized   *)
(* once, its other events follow its Initialize, no position is drawn      *)
(* below zero, and a Swap reports the liquidity active at its new tick.    *)
(* Under the open feed none of this is assumed.                            *)

Initialize ==
    \E p \in PoolIds, params \in InitializeParams, block \in Blocks :
        /\ Deliverable(block)
        /\ feed = "chain" => ~Has(context, "Pool", p)
        /\ LET event == Envelope("Initialize", p, block) @@ params
           IN  /\ context' = InitializeHandler(context, event)
               /\ ev' = event @@ [outcome |-> "applied"]
        /\ hist' = [hist EXCEPT !.settled = {},
                                !.once = hist.once /\ ~Has(context, "Pool", p)]
        /\ UNCHANGED <<feed, feedValid, scan>>

ModifyLiquidity ==
    \E p \in PoolIds, key \in PositionKeys, delta \in LiquidityDeltas,
       block \in Blocks :
        LET positionId == <<p, key.sender, key.tickLower, key.tickUpper>>
            covered == StoredLiquidity(context, positionId) + delta >= 0
            event == Envelope("ModifyLiquidity", p, block) @@ key
                        @@ [liquidityDelta |-> delta]
        IN  /\ Deliverable(block)
            /\ feed = "chain" => Has(context, "Pool", p) /\ covered
            /\ context' = ModifyLiquidityHandler(context, event)
            /\ ev' = event @@ [outcome |-> IF Dropped(context, p)
                                           THEN "dropped" ELSE "applied"]
            /\ feedValid' = (feedValid /\ (Dropped(context, p) \/ covered))
            /\ hist' = IF Dropped(context, p)
                       THEN hist
                       ELSE [hist EXCEPT !.settled = hist.settled \cup {positionId}]
            /\ UNCHANGED <<feed, scan>>

Swap ==
    \E p \in PoolIds, params \in SwapParams, block \in Blocks :
        LET active == LiquidityInRange(context, p, params.tick)
            event == Envelope("Swap", p, block) @@ params
                        @@ [sender |-> "s",
                            liquidity |-> IF active < 0 THEN 0 ELSE active]
        IN  /\ Deliverable(block)
            /\ feed = "chain" => Has(context, "Pool", p)
            /\ context' = SwapHandler(context, event)
            /\ ev' = event @@ [outcome |-> IF Dropped(context, p)
                                           THEN "dropped" ELSE "applied"]
            /\ hist' = IF Dropped(context, p)
                       THEN hist
                       ELSE [hist EXCEPT !.settled = {}]
            /\ UNCHANGED <<feed, feedValid, scan>>

Donate ==
    \E p \in PoolIds, params \in DonateParams, block \in Blocks :
        LET event == Envelope("Donate", p, block) @@ params
        IN  /\ Deliverable(block)
            /\ feed = "chain" => Has(context, "Pool", p)
            /\ context' = DonateHandler(context, event)
            /\ ev' = event @@ [outcome |-> IF Dropped(context, p)
                                           THEN "dropped" ELSE "applied"]
            /\ hist' = IF Dropped(context, p)
                       THEN hist
                       ELSE [hist EXCEPT !.settled = {}]
            /\ UNCHANGED <<feed, feedValid, scan>>

Next == Initialize \/ ModifyLiquidity \/ Swap \/ Donate

Init ==
    /\ context = EmptyContext
    /\ ev = NoEvent
    /\ feed = "chain"
    /\ feedValid = TRUE
    /\ hist = NoHistory(MaxEvents)
    /\ scan = NoScan

Spec == Init /\ [][Next]_vars

\* a store holding a Pool one of whose Token records is absent: the case the
\* handlers' second early return guards
OrphanContext ==
    LET params == CHOOSE x \in InitializeParams : x.hooks # ADDRESS_ZERO
        event == [kind |-> "Initialize", id |-> "p1",
                  block |-> [number |-> 0, timestamp |-> 0],
                  hash |-> <<"tx", 0>>, logIndex |-> 0] @@ params
        full == InitializeHandler(EmptyContext, event)
    IN  [full EXCEPT !["Token"] =
            [k \in DOMAIN full.Token \ {params.currency1} |-> full.Token[k]]]

InitOpen ==
    /\ context \in {EmptyContext, OrphanContext}
    /\ ev = NoEvent
    /\ feed = "open"
    /\ feedValid = TRUE
    /\ hist = NoHistory(MaxOpenEvents)
    /\ scan = NoScan

SpecOpen == InitOpen /\ [][Next]_vars

-----------------------------------------------------------------------------
(* The chain's feed continued from a pool that already earned fees: one    *)
(* Initialize, one ModifyLiquidity that opens a position around the        *)
(* current tick, one Swap inside the position's range.                     *)

SeedBlock == CHOOSE b \in Blocks : b.number = 1

SeedInitialize ==
    [kind |-> "Initialize", id |-> "p1", block |-> SeedBlock,
     hash |-> <<"tx", SeedBlock.number>>, logIndex |-> 1]
        @@ (CHOOSE x \in InitializeParams : x.hooks = ADDRESS_ZERO)

SeedModifyLiquidity ==
    [kind |-> "ModifyLiquidity", id |-> "p1", block |-> SeedBlock,
     hash |-> <<"tx", SeedBlock.number>>, logIndex |-> 2,
     sender |-> "a", tickLower |-> -2, tickUpper |-> 2, liquidityDelta |-> 200]

SeedSwap ==
    [kind |-> "Swap", id |-> "p1", block |-> SeedBlock,
     hash |-> <<"tx", SeedBlock.number>>, logIndex |-> 3,
     sender |-> "s", liquidity |-> 200]
        @@ (CHOOSE x \in SwapParams :
                x.tick = 0 /\ x.amount0 # 0 /\ x.amount1 # 0)

SeededContext ==
    SwapHandler(
        ModifyLiquidityHandler(
            InitializeHandler(EmptyContext, SeedInitialize),
            SeedModifyLiquidity),
        SeedSwap)

InitSeeded ==
    /\ context = SeededContext
    /\ ev = SeedSwap @@ [outcome |-> "applied"]
    /\ feed = "chain"
    /\ feedValid = TRUE
    /\ hist = NoHistory(SeedSwap.logIndex + MaxSeededEvents)
    /\ scan = NoScan

NextSeeded == ModifyLiquidity \/ Swap \/ Donate

SpecSeeded == InitSeeded /\ [][NextSeeded]_vars

\* The chain's feed continued from a pool whose price went below zero: a
\* large position around tick 0, a small one below it, and a Swap down into
\* the small one's range.
SkewedModifyLiquidityA ==
    [kind |-> "ModifyLiquidity", id |-> "p1", block |-> SeedBlock,
     hash |-> <<"tx", SeedBlock.number>>, logIndex |-> 2,
     sender |-> "a", tickLower |-> -2, tickUpper |-> 2, liquidityDelta |-> 400]

SkewedModifyLiquidityB ==
    [kind |-> "ModifyLiquidity", id |-> "p1", block |-> SeedBlock,
     hash |-> <<"tx", SeedBlock.number>>, logIndex |-> 3,
     sender |-> "b", tickLower |-> -4, tickUpper |-> -2, liquidityDelta |-> 100]

SkewedSwap ==
    [kind |-> "Swap", id |-> "p1", block |-> SeedBlock,
     hash |-> <<"tx", SeedBlock.number>>, logIndex |-> 4,
     sender |-> "s", liquidity |-> 100]
        @@ (CHOOSE x \in SwapParams : x.tick = -4)

SkewedContext ==
    SwapHandler(
        ModifyLiquidityHandler(
            ModifyLiquidityHandler(
                InitializeHandler(EmptyContext, SeedInitialize),
                SkewedModifyLiquidityA),
            SkewedModifyLiquidityB),
        SkewedSwap)

InitSkewed ==
    /\ context = SkewedContext
    /\ ev = SkewedSwap @@ [outcome |-> "applied"]
    /\ feed = "chain"
    /\ feedValid = TRUE
    /\ hist = NoHistory(SkewedSwap.logIndex + MaxSkewedEvents)
    /\ scan = NoScan

SpecSkewed == InitSkewed /\ [][NextSeeded]_vars

\* the chain's feed from the empty store and from the store of SeededContext
InitChain == Init \/ InitSeeded

SpecChain == InitChain /\ [][Next]_vars

-----------------------------------------------------------------------------
(* The chain's feed over two pools that share a token, each contract read  *)
(* of the metadata lookup succeeding or failing on its own.                *)

SharingPoolIds == {"p1", "p2"}

RpcOutcomes ==
    {[name |-> [ok |-> n, value |-> IF n THEN "Token" ELSE ""],
      symbol |-> [ok |-> y, value |-> IF y THEN "TKN" ELSE ""],
      decimals |-> [ok |-> d, value |-> IF d THEN 6 ELSE 0]] :
        n \in BOOLEAN, y \in BOOLEAN, d \in BOOLEAN}

RpcDown == CHOOSE r \in RpcOutcomes : ~r.name.ok /\ ~r.symbol.ok /\ ~r.decimals.ok

SharingParams ==
    {[base EXCEPT !.rpc0 = r0, !.rpc1 = r1] :
        base \in InitializeParams, r0 \in {RpcOk, RpcDown}, r1 \in RpcOutcomes}

InitializeSharing ==
    \E p \in SharingPoolIds, params \in SharingParams, block \in Blocks :
        /\ Deliverable(block)
        /\ ~Has(context, "Pool", p)
        /\ LET event == Envelope("Initialize", p, block) @@ params
           IN  /\ context' = InitializeHandler(context, event)
               /\ ev' = event @@ [outcome |-> "applied"]
        /\ hist' = [hist EXCEPT !.settled = {}]
        /\ UNCHANGED <<feed, feedValid, scan>>

InitPools ==
    /\ context = EmptyContext
    /\ ev = NoEvent
    /\ feed = "chain"
    /\ feedValid = TRUE
    /\ hist = NoHistory(MaxPoolsEvents)
    /\ scan = NoScan

NextPools == InitializeSharing \/ ModifyLiquidity \/ Swap \/ Donate

SpecPools == InitPools /\ [][NextPools]_vars

-----------------------------------------------------------------------------
(* The tick-crossing scanner on its own: any two ticks, any spacing, any   *)
(* set of initialized ticks.                                               *)

ScanTicks == (-MaxScanTick)..MaxScanTick

ScanContext(initialized) ==
    [EmptyContext EXCEPT !["Tick"] =
        [k \in {<<"p1", t>> : t \in initialized} |->
            createTick(k, k[2], "p1", 0, 0)]]

ScanInit ==
    /\ scan \in [phase : {"input"}, oldTick : ScanTicks, newTick : ScanTicks,
                 tickSpacing : 1..MaxSpacing, initialized : SUBSET ScanTicks,
                 result : {<<>>}]
    /\ context = EmptyContext
    /\ ev = NoEvent
    /\ feed = "chain"
    /\ feedValid = TRUE
    /\ hist = NoHistory(0)

RunScan ==
    /\ scan.phase = "input"
    /\ scan' = [scan EXCEPT
                  !.phase = "done",
                  !.result = getInitializedTicksCrossed(
                      ScanContext(scan.initialized), "p1",
                      scan.oldTick, scan.newTick, scan.tickSpacing)]
    /\ UNCHANGED <<context, ev, feed, feedValid, hist>>

ScanNext == RunScan

SpecScan == ScanInit /\ [][ScanNext]_vars

-----------------------------------------------------------------------------
(* The scanner run for a move and for the move back over the same store:   *)
(* every tick stored, one tick stored, or none.                            *)

RoundTripTicks == (-MaxRoundTripTick)..MaxRoundTripTick

RoundTripStores == {{}, RoundTripTicks} \cup {{t} : t \in RoundTripTicks}

RoundTripInit ==
    /\ scan \in [phase : {"input"}, oldTick : RoundTripTicks,
                 newTick : RoundTripTicks, tickSpacing : 1..MaxSpacing,
                 initialized : RoundTripStores,
                 result : {<<>>}, resultBack : {<<>>}, candidates : {<<>>}]
    /\ context = EmptyContext
    /\ ev = NoEvent
    /\ feed = "chain"
    /\ feedValid = TRUE
    /\ hist = NoHistory(0)

RunRoundTrip ==
    /\ scan.phase = "input"
    /\ scan' = [scan EXCEPT
                  !.phase = "done",
                  !.result = getInitializedTicksCrossed(
                      ScanContext(scan.initialized), "p1",
                      scan.oldTick, scan.newTick, scan.tickSpacing),
                  !.resultBack = getInitializedTicksCrossed(
                      ScanContext(scan.initialized), "p1",
                      scan.newTick, scan.oldTick, scan.tickSpacing),
                  !.candidates = candidateTicks(scan.oldTick, scan.newTick,
                                              scan.tickSpacing)]
    /\ UNCHANGED <<context, ev, feed, feedValid, hist>>

RoundTripNext == RunRoundTrip

SpecRoundTrip == RoundTripInit /\ [][RoundTripNext]_vars

-----------------------------------------------------------------------------
(* Two handlers in flight on two pools.  A handler is suspended at its     *)
(* awaits; between two awaits it runs alone.  Three stretches are kept     *)
(* apart: up to the reads of the pool and its tokens (and, for             *)
(* ModifyLiquidity, of the ticks, the position and the provider, which     *)
(* getOrCreateLiquidityProvider stores when missing); up to the await of    *)
(* the interval upserts, with the writes made on the way; the rest.  The   *)
(* store's get and set act on the one store at once.                       *)

AwaitBlock == CHOOSE b \in Blocks : b.number = 2

AwaitInitialize(poolId, logIndex, params) ==
    [kind |-> "Initialize", id |-> poolId, block |-> SeedBlock,
     hash |-> <<"tx", SeedBlock.number>>, logIndex |-> logIndex] @@ params

AwaitSeedModifyLiquidity(poolId, logIndex) ==
    [SeedModifyLiquidity EXCEPT !.id = poolId, !.logIndex = logIndex]

\* both pools initialized, the first with a hooks contract and the token tB
\* the second one uses too, and a position opened in each
AwaitContext(params) ==
    ModifyLiquidityHandler(
        ModifyLiquidityHandler(
            InitializeHandler(
                InitializeHandler(
                    EmptyContext,
                    AwaitInitialize("p1", 1, CHOOSE x \in InitializeParams :
                                                x.hooks # ADDRESS_ZERO)),
                AwaitInitialize("p2", 2, params)),
            AwaitSeedModifyLiquidity("p1", 3)),
        AwaitSeedModifyLiquidity("p2", 4))

\* the event a handler is given: one of each kind per pool
AwaitEvents(ctx, poolId, logIndex) ==
    LET envelope == [id |-> poolId, block |-> AwaitBlock,
                     hash |-> <<"tx", AwaitBlock.number>>, logIndex |-> logIndex]
    IN  {envelope @@ [kind |-> "ModifyLiquidity", sender |-> "a",
                      tickLower |-> -2, tickUpper |-> 2, liquidityDelta |-> -100],
         envelope @@ [kind |-> "Swap", sender |-> "s",
                      liquidity |-> LiquidityInRange(ctx, poolId, 2)]
                  @@ (CHOOSE x \in SwapParams : x.tick = 2),
         envelope @@ [kind |-> "Donate"]
                  @@ (CHOOSE x \in DonateParams : x.amount1 > 0)}

Handle(ctx, event) ==
    IF event.kind = "ModifyLiquidity" THEN ModifyLiquidityHandler(ctx, event)
    ELSE IF event.kind = "Swap" THEN SwapHandler(ctx, event)
    ELSE DonateHandler(ctx, event)

\* what a handler holds from its first reads until its last write
SnapshotTypes(kind) ==
    IF kind = "ModifyLiquidity"
    THEN {"Pool", "Token", "Tick", "Position", "LiquidityProvider"}
    ELSE {"Pool", "Token"}

\* what a handler has set when it awaits the interval upserts
EarlyTypes(kind) ==
    IF kind = "ModifyLiquidity"
    THEN {"Tick", "Position", "LiquidityProvider", "Transaction"}
    ELSE IF kind = "Swap"
    THEN {"Tick", "HookStats", "Transaction"}
    ELSE {"HookStats", "Transaction"}

\* the store a suspended handler computes on: its snapshot for what it read
\* at the start, the store as it is now for what it reads on resuming
Mix(snap, now, kind) ==
    [type \in EntityTypes |->
        IF type \in SnapshotTypes(kind) THEN snap[type] ELSE now[type]]

\* the records of the given types that the handler set (those `after` adds
\* to or changes in `before`) put into the store as it is now
Writes(before, after, now, types) ==
    [type \in EntityTypes |->
        IF type \in types
        THEN [k \in DOMAIN now[type] \cup DOMAIN after[type] |->
                 IF k \in DOMAIN after[type]
                    /\ (k \notin DOMAIN before[type]
                          \/ after[type][k] # before[type][k])
                 THEN after[type][k]
                 ELSE now[type][k]]
        ELSE now[type]]

AwaitInit ==
    /\ \E params \in InitializeParams :
          \E e1 \in AwaitEvents(AwaitContext(params), "p1", 5) :
            \E e2 \in AwaitEvents(AwaitContext(params), "p2", 6) :
              /\ context = AwaitContext(params)
              /\ scan = [phase |-> "await",
                         before |-> AwaitContext(params),
                         handlers |-> <<[pc |-> "start", event |-> e1,
                                         snap |-> EmptyContext],
                                        [pc |-> "start", event |-> e2,
                                         snap |-> EmptyContext]>>]
    /\ ev = NoEvent
    /\ feed = "chain"
    /\ feedValid = TRUE
    /\ hist = NoHistory(0)

\* await context.Pool.get, await Promise.all of the reads
ReadStep ==
    \E h \in DOMAIN scan.handlers :
        /\ scan.handlers[h].pc = "start"
        /\ context' = IF scan.handlers[h].event.kind = "ModifyLiquidity"
                      THEN getOrCreateLiquidityProvider(
                               context, scan.handlers[h].event.id,
                               scan.handlers[h].event)
                      ELSE context
        /\ scan' = [scan EXCEPT !.handlers[h].pc = "read",
                                !.handlers[h].snap = context']
        /\ UNCHANGED <<ev, feed, feedValid, hist>>

\* the handler resumed until it awaits the interval upserts
WriteStep ==
    \E h \in DOMAIN scan.handlers :
        /\ scan.handlers[h].pc = "read"
        /\ context' =
              Writes(Mix(scan.handlers[h].snap, context, scan.handlers[h].event.kind),
                     Handle(Mix(scan.handlers[h].snap, context,
                                scan.handlers[h].event.kind),
                            scan.handlers[h].event),
                     context, EarlyTypes(scan.handlers[h].event.kind))
        /\ scan' = [scan EXCEPT !.handlers[h].pc = "written"]
        /\ UNCHANGED <<ev, feed, feedValid, hist>>

\* the interval upserts and the handler's last writes
FinishStep ==
    \E h \in DOMAIN scan.handlers :
        /\ scan.handlers[h].pc = "written"
        /\ context' =
              Writes(Mix(scan.handlers[h].snap, context, scan.handlers[h].event.kind),
                     Handle(Mix(scan.handlers[h].snap, context,
                                scan.handlers[h].event.kind),
                            scan.handlers[h].event),
                     context,
                     EntityTypes \ EarlyTypes(scan.handlers[h].event.kind))
        /\ scan' = [scan EXCEPT !.handlers[h].pc = "done"]
        /\ ev' = scan.handlers[h].event @@ [outcome |-> "applied"]
        /\ UNCHANGED <<feed, feedValid, hist>>

AwaitNext == ReadStep \/ WriteStep \/ FinishStep

SpecAwait == AwaitInit /\ [][AwaitNext]_vars

-----------------------------------------------------------------------------
(* The two fee helpers of liquidityUtils on their own: any accumulator     *)
(* values, any three ticks, any liquidity of either sign.                  *)

\* accumulator values that are no multiples of Q128
FeeGrowthValues == {k * (Q128 \div 4 + 1) : k \in 0..MaxFeeGrowth}

FeeTicks == (-MaxFeeTick)..MaxFeeTick

FeeGrowthInsideInputs ==
    [phase : {"input"}, fn : {"getFeeGrowthInside"},
     feeGrowthGlobal : FeeGrowthValues,
     feeGrowthOutsideLower : FeeGrowthValues,
     feeGrowthOutsideUpper : FeeGrowthValues,
     tickLower : FeeTicks, tickUpper : FeeTicks, currentTick : FeeTicks,
     result : {0}]

AccruedFeesInputs ==
    [phase : {"input"}, fn : {"calculateAccruedFees"},
     liquidity : (-MaxFeeLiquidity)..MaxFeeLiquidity,
     feeGrowthInside : FeeGrowthValues,
     feeGrowthInsideLast : FeeGrowthValues,
     result : {0}, resultDoubled : {0}]

\* liquidity deltas of either sign, ranges with tickLower < tickUpper, prices
\* on and between the tick boundaries
TokenAmountsInputs ==
    {x \in [phase : {"input"}, fn : {"calculateTokenAmounts"},
            liquidityDelta : {100 * k : k \in (-MaxFeeLiquidity)..MaxFeeLiquidity},
            tickLower : FeeTicks, tickUpper : FeeTicks,
            sqrtPriceX96 : {getSqrtRatioAtTick(t) + o : t \in FeeTicks, o \in {0, 2}},
            result : {0}, resultNegated : {0}] :
        x.tickLower < x.tickUpper}

FeesInit ==
    /\ scan \in FeeGrowthInsideInputs \cup AccruedFeesInputs \cup TokenAmountsInputs
    /\ context = EmptyContext
    /\ ev = NoEvent
    /\ feed = "chain"
    /\ feedValid = TRUE
    /\ hist = NoHistory(0)

RunFeeGrowthInside ==
    /\ scan.phase = "input"
    /\ scan.fn = "getFeeGrowthInside"
    /\ scan' = [scan EXCEPT
                  !.phase = "done",
                  !.result = getFeeGrowthInside(
                      scan.feeGrowthGlobal, scan.feeGrowthOutsideLower,
                      scan.feeGrowthOutsideUpper, scan.tickLower,
                      scan.tickUpper, scan.currentTick)]
    /\ UNCHANGED <<context, ev, feed, feedValid, hist>>

RunAccruedFees ==
    /\ scan.phase = "input"
    /\ scan.fn = "calculateAccruedFees"
    /\ scan' = [scan EXCEPT
                  !.phase = "done",
                  !.result = calculateAccruedFees(
                      scan.liquidity, scan.feeGrowthInside,
                      scan.feeGrowthInsideLast),
                  !.resultDoubled = calculateAccruedFees(
                      2 * scan.liquidity, scan.feeGrowthInside,
                      scan.feeGrowthInsideLast)]
    /\ UNCHANGED <<context, ev, feed, feedValid, hist>>

RunTokenAmounts ==
    /\ scan.phase = "input"
    /\ scan.fn = "calculateTokenAmounts"
    /\ scan' = [scan EXCEPT
                  !.phase = "done",
                  !.result = calculateTokenAmounts(
                      scan.liquidityDelta, scan.tickLower, scan.tickUpper,
                      scan.sqrtPriceX96),
                  !.resultNegated = calculateTokenAmounts(
                      -scan.liquidityDelta, scan.tickLower, scan.tickUpper,
                      scan.sqrtPriceX96)]
    /\ UNCHANGED <<context, ev, feed, feedValid, hist>>

FeesNext == RunFeeGrowthInside \/ RunAccruedFees \/ RunTokenAmounts

SpecFees == FeesInit /\ [][FeesNext]_vars

-----------------------------------------------------------------------------
(* The interval upserts on their own: two touches of the buckets of one    *)
(* pool or token, at any two timestamps around the period boundaries, in   *)
(* both orders.                                                            *)

BucketTimestamps == {0, 299, 300, 3599, 3600, 86399, 86400}

BucketTouches ==
    [timestamp : BucketTimestamps, sqrtPriceX96 : 1..MaxBucketPrice,
     liquidity : {0, 5}]

PoolTouchInputs ==
    [phase : {"input"}, fn : {"updatePoolData"}, type :
        {"PoolDayData", "PoolHourData", "Pool5MinuteData"},
     first : BucketTouches, second : BucketTouches,
     result : {<<>>}, resultSwapped : {<<>>}]

TokenTouchInputs ==
    [phase : {"input"}, fn : {"updateTokenData"}, type :
        {"TokenDayData", "TokenHourData"},
     first : [timestamp : BucketTimestamps],
     second : [timestamp : BucketTimestamps],
     result : {<<>>}, resultSwapped : {<<>>}]

\* the pool record a touch is given
TouchedPool(touch) ==
    [id |-> "p1", sqrtPriceX96 |-> touch.sqrtPriceX96,
     liquidity |-> touch.liquidity, tick |-> 0, tvl0 |-> 0, tvl1 |-> 0]

updatePoolData(type, ctx, touch) ==
    IF type = "PoolDayData"
    THEN updatePoolDayData(ctx, touch.timestamp, TouchedPool(touch))
    ELSE IF type = "PoolHourData"
    THEN updatePoolHourData(ctx, touch.timestamp, TouchedPool(touch))
    ELSE updatePool5MinuteData(ctx, touch.timestamp, TouchedPool(touch))

updateTokenData(type, ctx, touch) ==
    IF type = "TokenDayData"
    THEN updateTokenDayData(ctx, touch.timestamp, [id |-> "tA"])
    ELSE updateTokenHourData(ctx, touch.timestamp, [id |-> "tA"])

BucketsInit ==
    /\ scan \in PoolTouchInputs \cup TokenTouchInputs
    /\ context = EmptyContext
    /\ ev = NoEvent
    /\ feed = "chain"
    /\ feedValid = TRUE
    /\ hist = NoHistory(0)

RunPoolTouches ==
    /\ scan.phase = "input"
    /\ scan.fn = "updatePoolData"
    /\ scan' = [scan EXCEPT
                  !.phase = "done",
                  !.result = updatePoolData(
                      scan.type,
                      updatePoolData(scan.type, EmptyContext, scan.first),
                      scan.second)[scan.type],
                  !.resultSwapped = updatePoolData(
                      scan.type,
                      updatePoolData(scan.type, EmptyContext, scan.second),
                      scan.first)[scan.type]]
    /\ UNCHANGED <<context, ev, feed, feedValid, hist>>

RunTokenTouches ==
    /\ scan.phase = "input"
    /\ scan.fn = "updateTokenData"
    /\ scan' = [scan EXCEPT
                  !.phase = "done",
                  !.result = updateTokenData(
                      scan.type,
                      updateTokenData(scan.type, EmptyContext, scan.first),
                      scan.second)[scan.type],
                  !.resultSwapped = updateTokenData(
                      scan.type,
                      updateTokenData(scan.type, EmptyContext, scan.second),
                      scan.first)[scan.type]]
    /\ UNCHANGED <<context, ev, feed, feedValid, hist>>

BucketsNext == RunPoolTouches \/ RunTokenTouches

SpecBuckets == BucketsInit /\ [][BucketsNext]_vars

-----------------------------------------------------------------------------
(* Properties of the tick-crossing scanner (SpecScan) *)

\* the ticks strictly decrease (down) or strictly increase along a result
StrictlyOrdered(result, down) ==
    \A i \in 1..(Len(result) - 1) :
        IF down THEN result[i] > result[i + 1] ELSE result[i] < result[i + 1]

AlignedTo(result, tickSpacing) ==
    \A i \in 1..Len(result) : result[i] % tickSpacing = 0

\* C1: the scanner returns the empty list when oldTick = newTick, and for an
\* ascending move its result is strictly increasing, made of multiples of
\* tickSpacing, and lies in (oldTick, newTick].
C1_AscendingResult ==
    scan.phase = "done" =>
        /\ scan.oldTick = scan.newTick => scan.result = <<>>
        /\ scan.newTick > scan.oldTick =>
            /\ StrictlyOrdered(scan.result, FALSE)
            /\ AlignedTo(scan.result, scan.tickSpacing)
            /\ \A i \in 1..Len(scan.result) :
                  scan.oldTick < scan.result[i] /\ scan.result[i] <= scan.newTick

\* an ascending scan from a negative tick whose start had to be rounded and
\* that found an initialized tick
C1_Witness ==
    /\ scan.phase = "done"
    /\ scan.oldTick < 0
    /\ scan.newTick > scan.oldTick
    /\ (scan.oldTick + 1) % scan.tickSpacing # 0
    /\ scan.result # <<>>

\* C2: for a descending move the result is strictly decreasing, made of
\* multiples of tickSpacing, and lies between newTick and oldTick.  Both end
\* points are admitted here, so a violation is a tick outside the move
\* altogether and not a tick on the end the claim excludes.
C2_DescendingResult ==
    (scan.phase = "done" /\ scan.newTick < scan.oldTick) =>
        /\ StrictlyOrdered(scan.result, TRUE)
        /\ AlignedTo(scan.result, scan.tickSpacing)
        /\ \A i \in 1..Len(scan.result) :
              scan.newTick <= scan.result[i] /\ scan.result[i] <= scan.oldTick

\* C3: the scanner misses nothing: every initialized tick that is a multiple
\* of tickSpacing and lies in (oldTick, newTick] of an ascending move, or
\* strictly between newTick and oldTick of a descending one, is returned.
C3_MissesNothing ==
    scan.phase = "done" =>
        \A t \in scan.initialized :
            (/\ t % scan.tickSpacing = 0
             /\ \/ scan.oldTick < t /\ t <= scan.newTick
                \/ scan.newTick < t /\ t < scan.oldTick)
            => \E i \in 1..Len(scan.result) : scan.result[i] = t

-----------------------------------------------------------------------------
(* Properties of the handlers *)

Applied(kind) == ev'.kind = kind /\ ev'.outcome = "applied"

PoolTicks(ctx, poolId) == {k \in DOMAIN ctx.Tick : ctx.Tick[k].pool_id = poolId}

Flipped(old, new, pool) ==
    /\ new.feeGrowthOutside0X128 =
          pool.feeGrowthGlobal0X128 - old.feeGrowthOutside0X128
    /\ new.feeGrowthOutside1X128 =
          pool.feeGrowthGlobal1X128 - old.feeGrowthOutside1X128

\* C4: a Swap flips feeGrowthOutside0/1 of exactly the initialized ticks
\* between the pre-swap tick and the event's tick, with the post-update
\* accumulators, and leaves the pool's other Tick records untouched.  A tick
\* equal to either end of the move is left free here: a tick strictly between
\* the two must be flipped, a tick beyond either must be untouched.
C4_SwapFlipsTicksBetween ==
    [][Applied("Swap") =>
        \A k \in PoolTicks(context, ev'.id) :
            LET idx == context.Tick[k].tickIdx
                from == context.Pool[ev'.id].tick
                to == ev'.tick
            IN  /\ (from < idx /\ idx < to) \/ (to < idx /\ idx < from)
                    => Flipped(context.Tick[k], context'.Tick[k],
                               context'.Pool[ev'.id])
                /\ (idx < from /\ idx < to) \/ (idx > from /\ idx > to)
                    => context'.Tick[k] = context.Tick[k]]_vars

C7_LiquidityNonNegativeAnyDelta ==
    \A k \in DOMAIN context.Position : context.Position[k].liquidity >= 0

\* C7: every stored Position has liquidity >= 0 as long as no applied
\* ModifyLiquidity removed more liquidity than its position held.
C7_LiquidityNonNegative ==
    feedValid => \A k \in DOMAIN context.Position : context.Position[k].liquidity >= 0

\* a position emptied by a removal of all it held
C7_Witness ==
    /\ feedValid
    /\ ev.kind = "ModifyLiquidity"
    /\ ev.outcome = "applied"
    /\ ev.liquidityDelta < 0
    /\ context.Position[<<ev.id, ev.sender, ev.tickLower, ev.tickUpper>>].liquidity = 0

PositionsAt(ctx, tickId, lower) ==
    {k \in DOMAIN ctx.Position :
        /\ ctx.Position[k].pool_id = ctx.Tick[tickId].pool_id
        /\ IF lower
           THEN ctx.Position[k].tickLower = ctx.Tick[tickId].tickIdx
           ELSE ctx.Position[k].tickUpper = ctx.Tick[tickId].tickIdx}

LiquidityAt(ctx, tickId, lower) ==
    SumOver([k \in PositionsAt(ctx, tickId, lower) |-> ctx.Position[k].liquidity],
            PositionsAt(ctx, tickId, lower))

\* C8: every Tick's liquidityGross is the sum of the liquidity of the positions
\* bounded by it (below or above), and its liquidityNet the sum over those it
\* bounds below minus the sum over those it bounds above.
C8_TickLiquidity ==
    \A t \in DOMAIN context.Tick :
        /\ context.Tick[t].liquidityGross =
              LiquidityAt(context, t, TRUE) + LiquidityAt(context, t, FALSE)
        /\ context.Tick[t].liquidityNet =
              LiquidityAt(context, t, TRUE) - LiquidityAt(context, t, FALSE)

\* a tick that bounds one funded position below and another above
C8_Witness ==
    \E t \in DOMAIN context.Tick :
        /\ LiquidityAt(context, t, TRUE) > 0
        /\ LiquidityAt(context, t, FALSE) > 0
        /\ context.Tick[t].liquidityGross > context.Tick[t].liquidityNet

\* C9: an applied ModifyLiquidity changes Pool.liquidity by liquidityDelta when
\* tickLower <= Pool.tick < tickUpper and not at all otherwise, and changes
\* Pool.tvl0 and Pool.tvl1 by the signed amounts computed from the pool's price.
C9_ModifyLiquidityPool ==
    [][Applied("ModifyLiquidity") =>
        LET pool == context.Pool[ev'.id]
            amounts == calculateTokenAmounts(ev'.liquidityDelta, ev'.tickLower,
                                             ev'.tickUpper, pool.sqrtPriceX96)
        IN  /\ context'.Pool[ev'.id].liquidity =
                  IF ev'.tickLower <= pool.tick /\ pool.tick < ev'.tickUpper
                  THEN pool.liquidity + ev'.liquidityDelta
                  ELSE pool.liquidity
            /\ context'.Pool[ev'.id].tvl0 = pool.tvl0 + amounts.amount0
            /\ context'.Pool[ev'.id].tvl1 = pool.tvl1 + amounts.amount1]_vars

\* a removal from a range holding the pool's tick, paid out in both tokens
C9_Witness ==
    /\ ev.kind = "ModifyLiquidity"
    /\ ev.outcome = "applied"
    /\ ev.liquidityDelta < 0
    /\ rangeContainsTick(ev.tickLower, ev.tickUpper, context.Pool[ev.id].tick)
    /\ context.ModifyLiquidity[<<ev.hash, ev.logIndex>>].amount0 < 0
    /\ context.ModifyLiquidity[<<ev.hash, ev.logIndex>>].amount1 < 0

\* C10: a ModifyLiquidity, Swap or Donate for a pool with no Pool record, or
\* with a Token record missing, leaves every record of the store as it was.
C10_DroppedLeavesStore ==
    [][(ev'.kind \in {"ModifyLiquidity", "Swap", "Donate"}
        /\ ev'.outcome = "dropped") => context' = context]_vars

-----------------------------------------------------------------------------
(* Fee accrual of positions (SpecSeeded) *)

PositionIdOf(event) == <<event.id, event.sender, event.tickLower, event.tickUpper>>

ProviderIdOf(event) == <<event.id, event.sender>>

\* C11: a ModifyLiquidity on a position that was already modified since the
\* pool's last Swap or Donate adds nothing to Position.fees0/fees1 nor to
\* LiquidityProvider.fees0/fees1: the first one stored the fresh
\* feeGrowthInside as feeGrowthInsideLast.
C11_NoDoubleAccrual ==
    [][(Applied("ModifyLiquidity") /\ PositionIdOf(ev') \in hist.settled) =>
        /\ context'.Position[PositionIdOf(ev')].fees0
              = context.Position[PositionIdOf(ev')].fees0
        /\ context'.Position[PositionIdOf(ev')].fees1
              = context.Position[PositionIdOf(ev')].fees1
        /\ context'.LiquidityProvider[ProviderIdOf(ev')].fees0
              = context.LiquidityProvider[ProviderIdOf(ev')].fees0
        /\ context'.LiquidityProvider[ProviderIdOf(ev')].fees1
              = context.LiquidityProvider[ProviderIdOf(ev')].fees1]_vars

\* a position that earned fees on its second ModifyLiquidity is modified a
\* third time with no Swap or Donate in between
C11_Witness ==
    /\ ev.kind = "ModifyLiquidity" /\ ev.outcome = "applied"
    /\ context.Position[PositionIdOf(ev)].modifyLiquidityCount = 3
    /\ context.Position[PositionIdOf(ev)].fees0 > 0
    /\ context.Position[PositionIdOf(ev)].fees1 > 0
    /\ context.Position[PositionIdOf(ev)].feeGrowthInside0LastX128 > 0
    /\ context.Position[PositionIdOf(ev)].liquidity > 0
    /\ context.Pool[ev.id].swapCount = 1
    /\ context.Pool[ev.id].txCount = 4

-----------------------------------------------------------------------------
(* Position counters (SpecOpen) *)

ActivePositions(ctx, poolId) ==
    Cardinality({k \in DOMAIN ctx.Position :
                    /\ ctx.Position[k].pool_id = poolId
                    /\ ctx.Position[k].liquidity > 0})

\* C12 as stated: whatever liquidity the positions went through, a pool's
\* activePositionCount is the number of its Positions with liquidity > 0.
C12_ActivePositionCountAnyLiquidity ==
    hist.once =>
        \A p \in DOMAIN context.Pool :
            context.Pool[p].activePositionCount = ActivePositions(context, p)

\* C12: a ModifyLiquidity raises Pool.activePositionCount by one exactly when
\* the position's liquidity becomes positive from zero or from no stored
\* position, lowers it by one exactly when a positive liquidity becomes zero,
\* and leaves it alone otherwise; as long as no position's liquidity was drawn
\* below zero the count is the number of the pool's Positions with
\* liquidity > 0.
C12_ActivePositionCount ==
    /\ [][Applied("ModifyLiquidity") =>
            context'.Pool[ev'.id].activePositionCount
                - context.Pool[ev'.id].activePositionCount
              = IF StoredLiquidity(context', PositionIdOf(ev')) > 0
                   /\ StoredLiquidity(context, PositionIdOf(ev')) = 0
                THEN 1
                ELSE IF StoredLiquidity(context', PositionIdOf(ev')) = 0
                        /\ StoredLiquidity(context, PositionIdOf(ev')) > 0
                THEN -1
                ELSE 0]_vars
    /\ [](hist.once /\ feedValid =>
            \A p \in DOMAIN context.Pool :
                context.Pool[p].activePositionCount = ActivePositions(context, p))

\* a position is emptied: the count went up to one and back to zero
C12_Witness ==
    /\ ev.kind = "ModifyLiquidity" /\ ev.outcome = "applied"
    /\ hist.once /\ feedValid
    /\ ev.liquidityDelta < 0
    /\ context.Position[PositionIdOf(ev)].liquidity = 0
    /\ context.Position[PositionIdOf(ev)].modifyLiquidityCount = 2
    /\ context.Pool[ev.id].activePositionCount = 0
    /\ context.Pool[ev.id].positionCount = 1

-----------------------------------------------------------------------------
(* Donate (Spec) *)

\* C13: a Donate to a pool whose liquidity is 0 leaves feeGrowthGlobal0X128
\* and feeGrowthGlobal1X128 unchanged and adds amount0 / amount1 to
\* Pool.tvl0 / Pool.tvl1; whatever the pool's liquidity, it adds the same
\* amounts to the tvl of token0 and of token1.
C13_DonateTvl ==
    [][Applied("Donate") =>
        /\ context.Pool[ev'.id].liquidity = 0 =>
            /\ context'.Pool[ev'.id].feeGrowthGlobal0X128
                  = context.Pool[ev'.id].feeGrowthGlobal0X128
            /\ context'.Pool[ev'.id].feeGrowthGlobal1X128
                  = context.Pool[ev'.id].feeGrowthGlobal1X128
            /\ context'.Pool[ev'.id].tvl0 = context.Pool[ev'.id].tvl0 + ev'.amount0
            /\ context'.Pool[ev'.id].tvl1 = context.Pool[ev'.id].tvl1 + ev'.amount1
        /\ context'.Token[context.Pool[ev'.id].token0_id].tvl
              = context.Token[context.Pool[ev'.id].token0_id].tvl + ev'.amount0
        /\ context'.Token[context.Pool[ev'.id].token1_id].tvl
              = context.Token[context.Pool[ev'.id].token1_id].tvl + ev'.amount1]_vars

\* a donation of both tokens reached a pool with no active liquidity
C13_Witness ==
    /\ ev.kind = "Donate" /\ ev.outcome = "applied"
    /\ ev.amount0 > 0 /\ ev.amount1 > 0
    /\ context.Pool[ev.id].liquidity = 0
    /\ context.Pool[ev.id].tvl0 >= ev.amount0
    /\ context.Pool[ev.id].tvl1 >= ev.amount1
    /\ context.Token[context.Pool[ev.id].token0_id].tvl >= ev.amount0
    /\ context.Pool[ev.id].feeGrowthGlobal0X128 = 0

\* C14: a Donate to a pool whose liquidity is 0 adds its amounts to no fee
\* total: Pool.fees0/fees1, the fees0/fees1 of the pool's day, hour and
\* 5-minute buckets and HookStats.fees0/fees1 all keep their values.
C14_DonateNoFeesWithoutLiquidity ==
    [][(Applied("Donate") /\ context.Pool[ev'.id].liquidity = 0) =>
        /\ context'.Pool[ev'.id].fees0 = context.Pool[ev'.id].fees0
        /\ context'.Pool[ev'.id].fees1 = context.Pool[ev'.id].fees1
        /\ \A type \in {"PoolDayData", "PoolHourData", "Pool5MinuteData"} :
             \A k \in DOMAIN context'[type] :
                /\ context'[type][k].fees0
                      = IF k \in DOMAIN context[type]
                        THEN context[type][k].fees0 ELSE 0
                /\ context'[type][k].fees1
                      = IF k \in DOMAIN context[type]
                        THEN context[type][k].fees1 ELSE 0
        /\ \A h \in DOMAIN context.HookStats :
                /\ context'.HookStats[h].fees0 = context.HookStats[h].fees0
                /\ context'.HookStats[h].fees1 = context.HookStats[h].fees1]_vars

-----------------------------------------------------------------------------
(* Swap (Spec) *)

Magnitude(x) == IF x < 0 THEN -x ELSE x

\* the fee of one side of a swap: abs(amount) * feeTier / 1_000_000
SwapFee(amount, feeTier) == Div(Magnitude(amount) * feeTier, 1000000)

RangeOf(seq) == {seq[i] : i \in 1..Len(seq)}

\* C15: a Swap on a pool whose stored liquidity is 0 is applied in full
\* without dividing by the liquidity: both accumulators keep their values,
\* the fees are added to Pool.fees0/fees1 and the absolute amounts to
\* Pool.volume0/volume1.
C15_SwapWithoutLiquidity ==
    [][(Applied("Swap") /\ context.Pool[ev'.id].liquidity = 0) =>
        /\ context'.Pool[ev'.id].feeGrowthGlobal0X128
              = context.Pool[ev'.id].feeGrowthGlobal0X128
        /\ context'.Pool[ev'.id].feeGrowthGlobal1X128
              = context.Pool[ev'.id].feeGrowthGlobal1X128
        /\ context'.Pool[ev'.id].fees0
              = context.Pool[ev'.id].fees0
                  + SwapFee(ev'.amount0, context.Pool[ev'.id].feeTier)
        /\ context'.Pool[ev'.id].fees1
              = context.Pool[ev'.id].fees1
                  + SwapFee(ev'.amount1, context.Pool[ev'.id].feeTier)
        /\ context'.Pool[ev'.id].volume0
              = context.Pool[ev'.id].volume0 + Magnitude(ev'.amount0)
        /\ context'.Pool[ev'.id].volume1
              = context.Pool[ev'.id].volume1 + Magnitude(ev'.amount1)
        /\ context'.Pool[ev'.id].swapCount = context.Pool[ev'.id].swapCount + 1
        /\ <<ev'.hash, ev'.logIndex>> \in DOMAIN context'.Swap]_vars

\* fees were charged on both sides while the accumulators never moved
C15_Witness ==
    /\ ev.kind = "Swap" /\ ev.outcome = "applied"
    /\ ev.amount0 # 0 /\ ev.amount1 # 0
    /\ context.Pool[ev.id].fees0 > 0 /\ context.Pool[ev.id].fees1 > 0
    /\ context.Pool[ev.id].volume0 > 0
    /\ context.Pool[ev.id].feeGrowthGlobal0X128 = 0
    /\ context.Pool[ev.id].feeGrowthGlobal1X128 = 0

\* C16: on a Swap the fee of each side is abs(amount) * feeTier / 1_000_000;
\* with a positive stored liquidity L each accumulator advances by
\* fee * Q128 / L, L being the liquidity the pool held before the swap and
\* not the one the event carries; every initialized tick the scan returns
\* is flipped against the advanced accumulators.
C16_SwapFeeGrowth ==
    [][Applied("Swap") =>
        /\ context'.Pool[ev'.id].fees0 - context.Pool[ev'.id].fees0
              = SwapFee(ev'.amount0, context.Pool[ev'.id].feeTier)
        /\ context'.Pool[ev'.id].fees1 - context.Pool[ev'.id].fees1
              = SwapFee(ev'.amount1, context.Pool[ev'.id].feeTier)
        /\ context.Pool[ev'.id].liquidity > 0 =>
            /\ context'.Pool[ev'.id].feeGrowthGlobal0X128
                  = context.Pool[ev'.id].feeGrowthGlobal0X128
                      + Div(SwapFee(ev'.amount0, context.Pool[ev'.id].feeTier) * Q128,
                            context.Pool[ev'.id].liquidity)
            /\ context'.Pool[ev'.id].feeGrowthGlobal1X128
                  = context.Pool[ev'.id].feeGrowthGlobal1X128
                      + Div(SwapFee(ev'.amount1, context.Pool[ev'.id].feeTier) * Q128,
                            context.Pool[ev'.id].liquidity)
        /\ \A idx \in RangeOf(getInitializedTicksCrossed(
                            context, ev'.id, context.Pool[ev'.id].tick, ev'.tick,
                            context.Pool[ev'.id].tickSpacing)) :
              /\ context'.Tick[<<ev'.id, idx>>].feeGrowthOutside0X128
                    = context'.Pool[ev'.id].feeGrowthGlobal0X128
                        - context.Tick[<<ev'.id, idx>>].feeGrowthOutside0X128
              /\ context'.Tick[<<ev'.id, idx>>].feeGrowthOutside1X128
                    = context'.Pool[ev'.id].feeGrowthGlobal1X128
                        - context.Tick[<<ev'.id, idx>>].feeGrowthOutside1X128]_vars

\* the first Swap of a pool left the only range: its fees advanced the
\* accumulators by the liquidity held before it, the event reports none,
\* and the crossed tick took over the advanced accumulator
C16_Witness ==
    /\ ev.kind = "Swap" /\ ev.outcome = "applied"
    /\ ev.amount0 # 0 /\ ev.liquidity = 0
    /\ context.Pool[ev.id].swapCount = 1
    /\ context.Pool[ev.id].feeGrowthGlobal0X128 > 0
    /\ \E k \in PoolTicks(context, ev.id) :
          context.Tick[k].feeGrowthOutside0X128
              = context.Pool[ev.id].feeGrowthGlobal0X128

\* C17: after a Swap the pool's liquidity, tick and sqrtPrice are the
\* event's; Pool.tvl0/tvl1 and the tvl of both tokens changed by the negated
\* event amounts; the volumes of the pool and of both tokens grew by the
\* absolute amounts; Pool.fees0/fees1 grew by the fees; swapCount and txCount
\* grew by one on the pool and on both tokens.
C17_SwapTotals ==
    [][Applied("Swap") =>
        LET old == context.Pool[ev'.id]
            new == context'.Pool[ev'.id]
            old0 == context.Token[old.token0_id]
            new0 == context'.Token[old.token0_id]
            old1 == context.Token[old.token1_id]
            new1 == context'.Token[old.token1_id]
        IN  /\ new.liquidity = ev'.liquidity
            /\ new.tick = ev'.tick
            /\ new.sqrtPrice = ev'.sqrtPriceX96
            /\ new.tvl0 = old.tvl0 - ev'.amount0
            /\ new.tvl1 = old.tvl1 - ev'.amount1
            /\ new0.tvl = old0.tvl - ev'.amount0
            /\ new1.tvl = old1.tvl - ev'.amount1
            /\ new.volume0 = old.volume0 + Magnitude(ev'.amount0)
            /\ new.volume1 = old.volume1 + Magnitude(ev'.amount1)
            /\ new0.volume = old0.volume + Magnitude(ev'.amount0)
            /\ new1.volume = old1.volume + Magnitude(ev'.amount1)
            /\ new.fees0 = old.fees0 + SwapFee(ev'.amount0, old.feeTier)
            /\ new.fees1 = old.fees1 + SwapFee(ev'.amount1, old.feeTier)
            /\ new.swapCount = old.swapCount + 1
            /\ new.txCount = old.txCount + 1
            /\ new0.swapCount = old0.swapCount + 1
            /\ new0.txCount = old0.txCount + 1
            /\ new1.swapCount = old1.swapCount + 1
            /\ new1.txCount = old1.txCount + 1]_vars

\* a Swap whose event amounts are negative for token0 and positive for
\* token1: the pool's tvl0 rose and its tvl1 fell
C17_Witness ==
    /\ ev.kind = "Swap" /\ ev.outcome = "applied"
    /\ ev.amount0 < 0 /\ ev.amount1 > 0
    /\ context.Pool[ev.id].tick = ev.tick
    /\ context.Pool[ev.id].sqrtPrice = ev.sqrtPriceX96
    /\ context.Pool[ev.id].tvl0 > 0
    /\ context.Pool[ev.id].tvl1 < 0
    /\ context.Pool[ev.id].volume1 > 0
    /\ context.Token[context.Pool[ev.id].token1_id].swapCount = 1

-----------------------------------------------------------------------------
(* Donate against the Swap formula (SpecOpen) *)

\* C18 as stated: whatever the pool's liquidity, a Donate leaves each
\* accumulator at the value updateFeeGrowth gives for the same accumulator,
\* amount and liquidity.
C18_DonateAsUpdateFeeGrowthAnyLiquidity ==
    [][Applied("Donate") =>
        /\ context'.Pool[ev'.id].feeGrowthGlobal0X128
              = updateFeeGrowth(context.Pool[ev'.id].feeGrowthGlobal0X128,
                                ev'.amount0, context.Pool[ev'.id].liquidity)
        /\ context'.Pool[ev'.id].feeGrowthGlobal1X128
              = updateFeeGrowth(context.Pool[ev'.id].feeGrowthGlobal1X128,
                                ev'.amount1, context.Pool[ev'.id].liquidity)]_vars

\* C18: with Pool.liquidity > 0 a Donate advances each accumulator by
\* amount * Q128 / liquidity and adds the amounts to Pool.fees0/fees1; for
\* every liquidity >= 0 the new accumulator is the value updateFeeGrowth
\* gives for the same accumulator, amount and liquidity; with a negative
\* liquidity the Donate leaves the accumulators alone.
C18_DonateAsUpdateFeeGrowth ==
    [][Applied("Donate") =>
        LET old == context.Pool[ev'.id]
            new == context'.Pool[ev'.id]
        IN  /\ old.liquidity > 0 =>
                /\ new.feeGrowthGlobal0X128
                      = old.feeGrowthGlobal0X128
                          + Div(ev'.amount0 * Q128, old.liquidity)
                /\ new.feeGrowthGlobal1X128
                      = old.feeGrowthGlobal1X128
                          + Div(ev'.amount1 * Q128, old.liquidity)
                /\ new.fees0 = old.fees0 + ev'.amount0
                /\ new.fees1 = old.fees1 + ev'.amount1
            /\ old.liquidity >= 0 =>
                /\ new.feeGrowthGlobal0X128
                      = updateFeeGrowth(old.feeGrowthGlobal0X128, ev'.amount0,
                                        old.liquidity)
                /\ new.feeGrowthGlobal1X128
                      = updateFeeGrowth(old.feeGrowthGlobal1X128, ev'.amount1,
                                        old.liquidity)
            /\ old.liquidity < 0 =>
                /\ new.feeGrowthGlobal0X128 = old.feeGrowthGlobal0X128
                /\ new.feeGrowthGlobal1X128 = old.feeGrowthGlobal1X128]_vars

\* a donation of both tokens was credited to a pool with active liquidity
C18_Witness ==
    /\ ev.kind = "Donate" /\ ev.outcome = "applied"
    /\ ev.amount0 > 0 /\ ev.amount1 > 0
    /\ context.Pool[ev.id].liquidity > 0
    /\ context.Pool[ev.id].fees0 = ev.amount0
    /\ context.Pool[ev.id].fees1 = ev.amount1
    /\ context.Pool[ev.id].feeGrowthGlobal0X128 > 0
    /\ context.Pool[ev.id].feeGrowthGlobal1X128 > 0

-----------------------------------------------------------------------------
(* The fee helpers (SpecFees) *)

FeeGrowthInsideDone == scan.phase = "done" /\ scan.fn = "getFeeGrowthInside"

AccruedFeesDone == scan.phase = "done" /\ scan.fn = "calculateAccruedFees"

\* C19: getFeeGrowthInside returns global - below - above, below being
\* outsideLower when currentTick >= tickLower and global - outsideLower
\* otherwise, above being outsideUpper when currentTick < tickUpper and
\* global - outsideUpper otherwise; for tickLower < tickUpper that is
\* global - outsideLower - outsideUpper inside the range,
\* outsideLower - outsideUpper below it and outsideUpper - outsideLower at
\* or above tickUpper.
C19_FeeGrowthInside ==
    FeeGrowthInsideDone =>
        /\ scan.result
              = scan.feeGrowthGlobal
                  - (IF scan.currentTick >= scan.tickLower
                     THEN scan.feeGrowthOutsideLower
                     ELSE scan.feeGrowthGlobal - scan.feeGrowthOutsideLower)
                  - (IF scan.currentTick < scan.tickUpper
                     THEN scan.feeGrowthOutsideUpper
                     ELSE scan.feeGrowthGlobal - scan.feeGrowthOutsideUpper)
        /\ scan.tickLower < scan.tickUpper =>
            /\ (scan.tickLower <= scan.currentTick
                    /\ scan.currentTick < scan.tickUpper) =>
                  scan.result = scan.feeGrowthGlobal - scan.feeGrowthOutsideLower
                                  - scan.feeGrowthOutsideUpper
            /\ scan.currentTick < scan.tickLower =>
                  scan.result = scan.feeGrowthOutsideLower
                                  - scan.feeGrowthOutsideUpper
            /\ scan.currentTick >= scan.tickUpper =>
                  scan.result = scan.feeGrowthOutsideUpper
                                  - scan.feeGrowthOutsideLower

\* the current tick sits on the lower bound of a proper range whose three
\* accumulators differ, so that the three cases give three different values
C19_Witness ==
    /\ FeeGrowthInsideDone
    /\ scan.tickLower < scan.tickUpper
    /\ scan.currentTick = scan.tickLower
    /\ scan.feeGrowthOutsideUpper > 0
    /\ scan.feeGrowthOutsideLower > scan.feeGrowthOutsideUpper
    /\ scan.feeGrowthGlobal > scan.feeGrowthOutsideLower
    /\ scan.result = scan.feeGrowthGlobal - scan.feeGrowthOutsideLower
                        - scan.feeGrowthOutsideUpper

\* the product the accrued fees are the quotient of
AccruedProduct == scan.liquidity * (scan.feeGrowthInside - scan.feeGrowthInsideLast)

\* C20 as stated: calculateAccruedFees is the floor of
\* liquidity * (now - last) / Q128 for every input, negative products
\* included.
C20_AccruedFeesFloor ==
    AccruedFeesDone => scan.result = AccruedProduct \div Q128

\* C20: calculateAccruedFees is liquidity * (now - last) / Q128 truncated
\* toward zero: the floor of the quotient when the product is not negative,
\* minus the floor of the negated quotient when it is, which is one above
\* the floor unless Q128 divides the product.
C20_AccruedFeesTruncated ==
    AccruedFeesDone =>
        /\ AccruedProduct >= 0 => scan.result = AccruedProduct \div Q128
        /\ AccruedProduct < 0 => scan.result = -((-AccruedProduct) \div Q128)
        /\ (AccruedProduct < 0 /\ AccruedProduct % Q128 # 0) =>
              scan.result = (AccruedProduct \div Q128) + 1

\* fee growth fell below the snapshot by more than one whole unit of fees
C20_Witness ==
    /\ AccruedFeesDone
    /\ scan.liquidity > 0
    /\ scan.feeGrowthInside < scan.feeGrowthInsideLast
    /\ AccruedProduct < -Q128
    /\ AccruedProduct % Q128 # 0
    /\ scan.result < 0

\* C21: for every liquidity L >= 0 and every fee-growth difference the fees
\* accrued for 2L differ from twice the fees accrued for L by at most 1.
C21_AccruedFeesLinear ==
    (AccruedFeesDone /\ scan.liquidity >= 0) =>
        /\ scan.resultDoubled - 2 * scan.result <= 1
        /\ 2 * scan.result - scan.resultDoubled <= 1

\* the rounding shows: the fees for 2L are one more than twice those for L
C21_Witness ==
    /\ AccruedFeesDone
    /\ scan.liquidity > 0
    /\ scan.feeGrowthInside > scan.feeGrowthInsideLast
    /\ scan.result > 0
    /\ scan.resultDoubled = 2 * scan.result + 1

TokenAmountsDone == scan.phase = "done" /\ scan.fn = "calculateTokenAmounts"

\* C22: calculateTokenAmounts gives amount1 = 0 when the price is at or
\* below the lower boundary price and amount0 = 0 when it is at or above the
\* upper boundary price; negating liquidityDelta negates amount0 and amount1
\* and keeps amount0Abs and amount1Abs, which are never negative; a zero
\* liquidityDelta gives four zeros.
C22_TokenAmounts ==
    TokenAmountsDone =>
        /\ scan.sqrtPriceX96 <= getSqrtRatioAtTick(scan.tickLower)
              => scan.result.amount1 = 0 /\ scan.result.amount1Abs = 0
        /\ scan.sqrtPriceX96 >= getSqrtRatioAtTick(scan.tickUpper)
              => scan.result.amount0 = 0 /\ scan.result.amount0Abs = 0
        /\ scan.resultNegated.amount0 = -scan.result.amount0
        /\ scan.resultNegated.amount1 = -scan.result.amount1
        /\ scan.resultNegated.amount0Abs = scan.result.amount0Abs
        /\ scan.resultNegated.amount1Abs = scan.result.amount1Abs
        /\ scan.result.amount0Abs >= 0
        /\ scan.result.amount1Abs >= 0
        /\ scan.liquidityDelta = 0 =>
              scan.result = [amount0 |-> 0, amount1 |-> 0,
                             amount0Abs |-> 0, amount1Abs |-> 0]

\* liquidity is removed from a range that holds the price: both amounts are
\* negative and their absolute values are the amounts of the opposite delta
C22_Witness ==
    /\ TokenAmountsDone
    /\ scan.liquidityDelta < 0
    /\ getSqrtRatioAtTick(scan.tickLower) < scan.sqrtPriceX96
    /\ scan.sqrtPriceX96 < getSqrtRatioAtTick(scan.tickUpper)
    /\ scan.result.amount0 < 0 /\ scan.result.amount1 < 0
    /\ scan.resultNegated.amount0 = scan.result.amount0Abs
    /\ scan.resultNegated.amount1 = scan.result.amount1Abs

-----------------------------------------------------------------------------
(* Interval buckets under the handlers (Spec) *)

PoolIntervalTypes == {"PoolDayData", "PoolHourData", "Pool5MinuteData"}

TokenIntervalTypes == {"TokenDayData", "TokenHourData"}

PeriodOf(type) ==
    IF type \in {"PoolDayData", "TokenDayData"} THEN 86400
    ELSE IF type \in {"PoolHourData", "TokenHourData"} THEN 3600
    ELSE 300

\* C23: in every pool bucket low <= open <= high and low <= close <= high;
\* no event lowers the high or raises the low of a bucket; after an applied
\* event the close and the liquidity of the pool's buckets of the event's
\* period are the pool's sqrtPrice and liquidity.
C23_PoolBucketPrices ==
    /\ [](\A type \in PoolIntervalTypes : \A k \in DOMAIN context[type] :
            /\ context[type][k].low <= context[type][k].open_
            /\ context[type][k].open_ <= context[type][k].high
            /\ context[type][k].low <= context[type][k].close
            /\ context[type][k].close <= context[type][k].high)
    /\ [][\A type \in PoolIntervalTypes :
            /\ \A k \in DOMAIN context[type] :
                  /\ context'[type][k].high >= context[type][k].high
                  /\ context'[type][k].low <= context[type][k].low
            /\ ev'.outcome = "applied" =>
                  LET k == <<ev'.id, ev'.block.timestamp \div PeriodOf(type)>>
                  IN  /\ context'[type][k].close = context'.Pool[ev'.id].sqrtPrice
                      /\ context'[type][k].liquidity
                            = context'.Pool[ev'.id].liquidity]_vars

\* the price of a day went above its opening price and closed below it
C23_Witness ==
    \E k \in DOMAIN context.PoolDayData :
        /\ context.PoolDayData[k].low < context.PoolDayData[k].open_
        /\ context.PoolDayData[k].open_ < context.PoolDayData[k].high
        /\ context.PoolDayData[k].close < context.PoolDayData[k].open_
        /\ context.PoolDayData[k].txCount >= 3

-----------------------------------------------------------------------------
(* The interval upserts (SpecBuckets) *)

PoolTouchesDone == scan.phase = "done" /\ scan.fn = "updatePoolData"

TouchesDone ==
    scan.phase = "done" /\ scan.fn \in {"updatePoolData", "updateTokenData"}

Larger(a, b) == IF a > b THEN a ELSE b

Smaller(a, b) == IF a < b THEN a ELSE b

\* the start of the period of a granularity that holds a timestamp
PeriodStart(timestamp, period) ==
    CHOOSE start \in {k * period : k \in 0..(86400 \div 300)} :
        start <= timestamp /\ timestamp < start + period

SamePeriod(type, t1, t2) ==
    PeriodStart(t1, PeriodOf(type)) = PeriodStart(t2, PeriodOf(type))

\* C24: two touches of one pool bucket within a period, with prices p1 and
\* p2, leave high = max(p1, p2) and low = min(p1, p2) in either order; close
\* is the price of the later touch and txCount is 2 in both orders.
C24_TwoTouches ==
    (PoolTouchesDone
        /\ SamePeriod(scan.type, scan.first.timestamp, scan.second.timestamp)) =>
        /\ DOMAIN scan.result = DOMAIN scan.resultSwapped
        /\ \A k \in DOMAIN scan.result :
              /\ scan.result[k].high
                    = Larger(scan.first.sqrtPriceX96, scan.second.sqrtPriceX96)
              /\ scan.result[k].low
                    = Smaller(scan.first.sqrtPriceX96, scan.second.sqrtPriceX96)
              /\ scan.resultSwapped[k].high = scan.result[k].high
              /\ scan.resultSwapped[k].low = scan.result[k].low
              /\ scan.result[k].close = scan.second.sqrtPriceX96
              /\ scan.resultSwapped[k].close = scan.first.sqrtPriceX96
              /\ scan.result[k].txCount = 2
              /\ scan.resultSwapped[k].txCount = 2

\* the lower price came second: the two orders agree on high and low and
\* differ on close
C24_Witness ==
    /\ PoolTouchesDone
    /\ SamePeriod(scan.type, scan.first.timestamp, scan.second.timestamp)
    /\ scan.first.timestamp # scan.second.timestamp
    /\ scan.first.sqrtPriceX96 > scan.second.sqrtPriceX96
    /\ \E k \in DOMAIN scan.result :
          /\ scan.result[k].high = scan.first.sqrtPriceX96
          /\ scan.result[k].close = scan.second.sqrtPriceX96
          /\ scan.resultSwapped[k].close = scan.first.sqrtPriceX96

\* C25: two touches of one pool or token fall into the same bucket of a
\* granularity exactly when floor(timestamp / period) is the same for both;
\* a bucket's startTimestamp is floor(timestamp / period) * period, so that
\* startTimestamp <= timestamp < startTimestamp + period; a bucket exists
\* from its first touch and its txCount is the number of its touches.
C25_BucketSelection ==
    TouchesDone =>
        LET period == PeriodOf(scan.type)
            touches == {scan.first.timestamp, scan.second.timestamp}
            same == SamePeriod(scan.type, scan.first.timestamp,
                               scan.second.timestamp)
        IN  /\ (Cardinality(DOMAIN scan.result) = 1) <=> same
            /\ Cardinality(DOMAIN scan.result) = IF same THEN 1 ELSE 2
            /\ \A t \in touches :
                  \E k \in DOMAIN scan.result :
                      /\ scan.result[k].startTimestamp = PeriodStart(t, period)
                      /\ scan.result[k].startTimestamp <= t
                      /\ t < scan.result[k].startTimestamp + period
            /\ \A k \in DOMAIN scan.result :
                  /\ \E t \in touches :
                        scan.result[k].startTimestamp = PeriodStart(t, period)
                  /\ scan.result[k].txCount = IF same THEN 2 ELSE 1

\* two timestamps one second apart on the two sides of a period boundary
C25_Witness ==
    /\ TouchesDone
    /\ scan.second.timestamp = scan.first.timestamp + 1
    /\ Cardinality(DOMAIN scan.result) = 2
    /\ \E k \in DOMAIN scan.result :
          scan.result[k].startTimestamp = scan.second.timestamp

-----------------------------------------------------------------------------
(* Interval buckets touched by the handlers (Spec) *)

\* the bucket of an entity for the period of an event was touched by it
Touched(type, entityId, event) ==
    LET k == <<entityId, event.block.timestamp \div PeriodOf(type)>>
    IN  /\ k \in DOMAIN context'[type]
        /\ context'[type][k].txCount
              = IF k \in DOMAIN context[type]
                THEN context[type][k].txCount + 1 ELSE 1

\* C26: every applied Initialize, ModifyLiquidity, Swap and Donate upserts
\* the day, hour and 5-minute buckets of its pool and the day and hour
\* buckets of both of the pool's tokens for the period of its timestamp.
C26_EveryEventTouchesBuckets ==
    [][ev'.outcome = "applied" =>
        /\ \A type \in PoolIntervalTypes : Touched(type, ev'.id, ev')
        /\ \A type \in TokenIntervalTypes :
              /\ Touched(type, context'.Pool[ev'.id].token0_id, ev')
              /\ Touched(type, context'.Pool[ev'.id].token1_id, ev')]_vars

-----------------------------------------------------------------------------
(* Initialize and the tokens (SpecPools) *)

PoolCountOf(ctx, type, id) == IF Has(ctx, type, id) THEN ctx[type][id].poolCount ELSE 0

\* C27: an Initialize for a pool id not yet stored, with two distinct
\* tokens, stores a Pool with liquidity 0, both accumulators 0, all volumes,
\* fees, tvl and counters 0 and the event's sqrtPrice and tick; both Tokens
\* are stored afterwards, each with its poolCount raised by one; the
\* poolCount of the hooks' HookStats is raised by one (from 0 if the record
\* was absent) when hooks is not the zero address, and no HookStats record
\* is touched when it is.
C27_Initialize ==
    [][(Applied("Initialize") /\ ~Has(context, "Pool", ev'.id)
            /\ ev'.currency0 # ev'.currency1) =>
        /\ LET pool == context'.Pool[ev'.id]
           IN  /\ pool.liquidity = 0
               /\ pool.feeGrowthGlobal0X128 = 0 /\ pool.feeGrowthGlobal1X128 = 0
               /\ pool.volume0 = 0 /\ pool.volume1 = 0
               /\ pool.fees0 = 0 /\ pool.fees1 = 0
               /\ pool.tvl0 = 0 /\ pool.tvl1 = 0
               /\ pool.txCount = 0 /\ pool.swapCount = 0
               /\ pool.modifyLiquidityCount = 0
               /\ pool.positionCount = 0 /\ pool.activePositionCount = 0
               /\ pool.sqrtPrice = ev'.sqrtPriceX96
               /\ pool.tick = ev'.tick
               /\ pool.token0_id = ev'.currency0 /\ pool.token1_id = ev'.currency1
        /\ \A c \in {ev'.currency0, ev'.currency1} :
              /\ Has(context', "Token", c)
              /\ context'.Token[c].poolCount = PoolCountOf(context, "Token", c) + 1
        /\ \A c \in DOMAIN context.Token \ {ev'.currency0, ev'.currency1} :
              context'.Token[c] = context.Token[c]
        /\ IF ev'.hooks # ADDRESS_ZERO
           THEN /\ context'.HookStats[ev'.hooks].poolCount
                      = PoolCountOf(context, "HookStats", ev'.hooks) + 1
                /\ \A h \in DOMAIN context'.HookStats \ {ev'.hooks} :
                      /\ h \in DOMAIN context.HookStats
                      /\ context'.HookStats[h] = context.HookStats[h]
           ELSE context'.HookStats = context.HookStats]_vars

\* a second pool was initialized over a token and a hooks contract that the
\* first pool already used, together with a token not stored before
C27_Witness ==
    /\ ev.kind = "Initialize"
    /\ DOMAIN context.Pool = SharingPoolIds
    /\ ev.hooks # ADDRESS_ZERO
    /\ context.HookStats[ev.hooks].poolCount = 1
    /\ context.Token[ev.currency1].poolCount = 2
    /\ context.Token[ev.currency0].poolCount = 1
    /\ context.Pool[ev.id].tick = ev.tick
    /\ context.Pool[ev.id].liquidity = 0

\* C29: no event changes the symbol, the name or the decimals of a stored
\* Token, whatever the metadata lookup of a later Initialize would return.
C29_TokenMetadataImmutable ==
    [][\A c \in DOMAIN context.Token :
          /\ context'.Token[c].symbol = context.Token[c].symbol
          /\ context'.Token[c].name = context.Token[c].name
          /\ context'.Token[c].decimals = context.Token[c].decimals]_vars

\* a second pool was initialized over a stored token while the lookups of
\* that token would have failed: the token kept the looked-up metadata
C29_Witness ==
    /\ ev.kind = "Initialize"
    /\ DOMAIN context.Pool = SharingPoolIds
    /\ ev.currency1 # ADDRESS_ZERO
    /\ ev.rpc1 = RpcDown
    /\ context.Token[ev.currency1].poolCount = 2
    /\ context.Token[ev.currency1].name = "Token"
    /\ context.Token[ev.currency1].symbol = "TKN"
    /\ context.Token[ev.currency1].decimals = 6

\* the metadata a token is created with, from its address and the outcome
\* of its three lookups
ResolvedMetadata(address, rpc) ==
    IF address = ADDRESS_ZERO
    THEN [name |-> "Ether", symbol |-> "ETH", decimals |-> 18]
    ELSE [name |-> IF rpc.name.ok THEN rpc.name.value ELSE "unknown",
          symbol |-> IF rpc.symbol.ok THEN rpc.symbol.value ELSE "UNKNOWN",
          decimals |-> IF rpc.decimals.ok THEN rpc.decimals.value ELSE 0]

CreatedWith(token, metadata) ==
    /\ token.name = metadata.name
    /\ token.symbol = metadata.symbol
    /\ token.decimals = metadata.decimals

-----------------------------------------------------------------------------
(* Records are never deleted (SpecChain) *)

KeptTypes == {"Pool", "Token", "Tick", "Position", "LiquidityProvider"}

\* the stored ticks of the pool at an index i with oldTick < i <= newTick
StoredTicksPassed(ctx, poolId, oldTick, newTick) ==
    {t \in DOMAIN ctx.Tick : t[1] = poolId /\ oldTick < t[2] /\ t[2] <= newTick}

-----------------------------------------------------------------------------
(* Positions and their providers *)

PositionsOfPool(ctx, poolId) ==
    {q \in DOMAIN ctx.Position : ctx.Position[q].pool_id = poolId}

PositionsOfProvider(ctx, providerId) ==
    {q \in DOMAIN ctx.Position : ctx.Position[q].liquidityProvider_id = providerId}

RECURSIVE SumField(_, _, _)
SumField(table, keys, field) ==
    IF keys = {}
    THEN 0
    ELSE LET k == CHOOSE x \in keys : TRUE
         IN  table[k][field] + SumField(table, keys \ {k}, field)

ProviderFields ==
    {"deposited0", "deposited1", "withdrawn0", "withdrawn1", "fees0", "fees1",
     "modifyLiquidityCount"}

ProviderField(ctx, providerId, field) ==
    IF Has(ctx, "LiquidityProvider", providerId)
    THEN ctx.LiquidityProvider[providerId][field]
    ELSE 0

\* the absolute amounts of the event at the pool's price before it
EventAmounts(ctx, event) ==
    calculateTokenAmounts(event.liquidityDelta, event.tickLower, event.tickUpper,
                          ctx.Pool[event.id].sqrtPriceX96)

\* C34: each LiquidityProvider's deposited0/1, withdrawn0/1, fees0/1 and
\* modifyLiquidityCount are the sums of the same fields over the Position
\* records of that provider; an applied ModifyLiquidity with delta > 0 adds
\* the absolute amounts to deposited and nothing to withdrawn, one with
\* delta <= 0 adds them to withdrawn and nothing to deposited.
C34_ProviderTotals ==
    /\ [](\A lp \in DOMAIN context.LiquidityProvider : \A field \in ProviderFields :
            context.LiquidityProvider[lp][field]
              = SumField(context.Position, PositionsOfProvider(context, lp), field))
    /\ [][Applied("ModifyLiquidity") =>
            /\ context'.LiquidityProvider[ProviderIdOf(ev')].deposited0
                 = ProviderField(context, ProviderIdOf(ev'), "deposited0")
                     + (IF ev'.liquidityDelta > 0
                        THEN EventAmounts(context, ev').amount0Abs ELSE 0)
            /\ context'.LiquidityProvider[ProviderIdOf(ev')].deposited1
                 = ProviderField(context, ProviderIdOf(ev'), "deposited1")
                     + (IF ev'.liquidityDelta > 0
                        THEN EventAmounts(context, ev').amount1Abs ELSE 0)
            /\ context'.LiquidityProvider[ProviderIdOf(ev')].withdrawn0
                 = ProviderField(context, ProviderIdOf(ev'), "withdrawn0")
                     + (IF ev'.liquidityDelta > 0
                        THEN 0 ELSE EventAmounts(context, ev').amount0Abs)
            /\ context'.LiquidityProvider[ProviderIdOf(ev')].withdrawn1
                 = ProviderField(context, ProviderIdOf(ev'), "withdrawn1")
                     + (IF ev'.liquidityDelta > 0
                        THEN 0 ELSE EventAmounts(context, ev').amount1Abs)]_vars

\* a provider with two positions has deposited into both, withdrawn from the
\* one just modified and collected fees on it
C34_Witness ==
    /\ ev.kind = "ModifyLiquidity" /\ ev.outcome = "applied"
    /\ ev.liquidityDelta < 0
    /\ Cardinality(PositionsOfProvider(context, ProviderIdOf(ev))) = 2
    /\ \A q \in PositionsOfProvider(context, ProviderIdOf(ev)) :
          context.Position[q].deposited0 + context.Position[q].deposited1 > 0
    /\ context.LiquidityProvider[ProviderIdOf(ev)].withdrawn0
          + context.LiquidityProvider[ProviderIdOf(ev)].withdrawn1 > 0
    /\ context.LiquidityProvider[ProviderIdOf(ev)].modifyLiquidityCount = 3
    /\ context.LiquidityProvider[ProviderIdOf(ev)].fees0 > 0

-----------------------------------------------------------------------------
(* Pool totals and the pool's interval buckets (Spec) *)

BucketsOfPool(ctx, type, poolId) ==
    {k \in DOMAIN ctx[type] : ctx[type][k].pool_id = poolId}

BucketSum(ctx, type, poolId, field) ==
    SumField(ctx[type], BucketsOfPool(ctx, type, poolId), field)

\* C37: for every pool and each of the day, hour and 5-minute granularities,
\* the fees0 of the pool's buckets add up to Pool.fees0, and the fees1 to
\* Pool.fees1.
C37_BucketFees ==
    \A p \in DOMAIN context.Pool : \A type \in PoolIntervalTypes :
        /\ BucketSum(context, type, p, "fees0") = context.Pool[p].fees0
        /\ BucketSum(context, type, p, "fees1") = context.Pool[p].fees1

-----------------------------------------------------------------------------
(* What ModifyLiquidity leaves alone (SpecSeeded) *)

PoolPriceAndFeeFields ==
    {"sqrtPrice", "sqrtPriceX96", "tick", "feeGrowthGlobal0X128",
     "feeGrowthGlobal1X128", "volume0", "volume1", "fees0", "fees1"}

TokenCounterFields == {"txCount", "modifyLiquidityCount", "positionCount"}

\* C39: an applied ModifyLiquidity leaves the pool's sqrtPrice, tick,
\* feeGrowthGlobal0/1, volume0/1 and fees0/1 and the feeGrowthOutside0/1 of
\* every stored Tick as they were, moves Pool.tvl0/1 by the signed amounts,
\* and changes nothing of the two Token records but txCount,
\* modifyLiquidityCount and positionCount: their tvl and volume stay.
C39_ModifyLiquidityFrame ==
    [][Applied("ModifyLiquidity") =>
        /\ \A field \in PoolPriceAndFeeFields :
              context'.Pool[ev'.id][field] = context.Pool[ev'.id][field]
        /\ \A t \in DOMAIN context.Tick :
              /\ context'.Tick[t].feeGrowthOutside0X128
                    = context.Tick[t].feeGrowthOutside0X128
              /\ context'.Tick[t].feeGrowthOutside1X128
                    = context.Tick[t].feeGrowthOutside1X128
        /\ context'.Pool[ev'.id].tvl0
              = context.Pool[ev'.id].tvl0 + EventAmounts(context, ev').amount0
        /\ context'.Pool[ev'.id].tvl1
              = context.Pool[ev'.id].tvl1 + EventAmounts(context, ev').amount1
        /\ \A c \in DOMAIN context.Token :
              \A field \in DOMAIN context.Token[c] \ TokenCounterFields :
                  context'.Token[c][field] = context.Token[c][field]
        /\ \A c \in {context.Pool[ev'.id].token0_id, context.Pool[ev'.id].token1_id} :
              /\ context'.Token[c].txCount = context.Token[c].txCount + 1
              /\ context'.Token[c].modifyLiquidityCount
                    = context.Token[c].modifyLiquidityCount + 1]_vars

\* liquidity was withdrawn from a pool with collected fees, nonzero token
\* tvl and a crossed tick, and the pool's tvl moved
C39_Witness ==
    /\ ev.kind = "ModifyLiquidity" /\ ev.outcome = "applied"
    /\ ev.liquidityDelta < 0
    /\ context.Pool[ev.id].fees0 > 0
    /\ context.Pool[ev.id].feeGrowthGlobal0X128 > 0
    /\ context.Pool[ev.id].tick # 0
    /\ \E t \in DOMAIN context.Tick : context.Tick[t].feeGrowthOutside0X128 > 0
    /\ context.Token[context.Pool[ev.id].token0_id].tvl # 0
    /\ context.Pool[ev.id].tvl0 # context.Token[context.Pool[ev.id].token0_id].tvl

-----------------------------------------------------------------------------
(* The scanner both ways (SpecRoundTrip) *)

\* C36: over the same store, the scanner reports the same set of ticks for
\* the move from a to b as for the move from b back to a, for ticks of
\* either sign and every tickSpacing >= 1.
C36_CrossingSymmetric ==
    scan.phase = "done" => RangeOf(scan.result) = RangeOf(scan.resultBack)

\* C40: the scanner looks up at most floor(|newTick - oldTick| / tickSpacing)
\* + 1 candidate ticks.
C40_CandidateBound ==
    scan.phase = "done" =>
        Len(scan.candidates)
          <= Magnitude(scan.newTick - scan.oldTick) \div scan.tickSpacing + 1

-----------------------------------------------------------------------------
(* Fees credited to positions against the fees of the pool (SpecSkewed) *)

\* C35: under the chain's feed the fees0 of the positions of a pool never
\* add up to more than Pool.fees0, and their fees1 to no more than
\* Pool.fees1.
C35_NoFeeInvented ==
    \A p \in DOMAIN context.Pool :
        /\ SumField(context.Position, PositionsOfPool(context, p), "fees0")
              <= context.Pool[p].fees0
        /\ SumField(context.Position, PositionsOfPool(context, p), "fees1")
              <= context.Pool[p].fees1

-----------------------------------------------------------------------------
(* Handlers in flight (SpecAwait) *)

OneAfterTheOther(ctx, first, second) == Handle(Handle(ctx, first), second)

AllDone == \A h \in DOMAIN scan.handlers : scan.handlers[h].pc = "done"

\* C31: when the handlers of two events on different pools have both
\* finished, however their stretches between awaits were interleaved, the
\* store is the one that processing the two events one after the other
\* gives.
C31_DistinctPoolsIndependent ==
    (scan.phase = "await" /\ AllDone) =>
        \/ context = OneAfterTheOther(scan.before, scan.handlers[1].event,
                                      scan.handlers[2].event)
        \/ context = OneAfterTheOther(scan.before, scan.handlers[2].event,
                                      scan.handlers[1].event)

\* the Tick, Position and LiquidityProvider records of a handler's pool
OwnRecords(ctx, poolId) ==
    [type \in {"Tick", "Position", "LiquidityProvider"} |->
        [k \in {x \in DOMAIN ctx[type] : x[1] = poolId} |-> ctx[type][k]]]

\* C32: while a handler is suspended before its last writes, the store shows
\* none of its event's writes: the Ticks, Positions and providers of its
\* pool are those it found, as the Pool record is.
C32_WritesAsOneUnit ==
    scan.phase = "await" =>
        \A h \in DOMAIN scan.handlers :
            scan.handlers[h].pc \in {"read", "written"} =>
                /\ context.Pool[scan.handlers[h].event.id]
                     = scan.handlers[h].snap.Pool[scan.handlers[h].event.id]
                /\ OwnRecords(context, scan.handlers[h].event.id)
                     = OwnRecords(scan.handlers[h].snap, scan.handlers[h].event.id)

=============================================================================
